---- MODULE Spec2Model ----
(***************************************************************************)
(* Model of the PII redaction backend (Backend/*.py): the deterministic    *)
(* pattern matcher (regex_redactor.py), the gap validator                  *)
(* (pii_validator.py), the detector client (ollama_client.py) and the two   *)
(* orchestrators (pii_service.py, improved_pii_service.py).                 *)
(*                                                                         *)
(* Texts are sequences of one-character strings.  Offsets are Python's     *)
(* 0-based offsets; a span [start, end) covers t[start+1 .. end] here.     *)
(***************************************************************************)
EXTENDS Integers, Sequences, FiniteSets, TLC

VARIABLES
    svc,      \* the service handling the request: "PIIService" or "ImprovedPIIService"
    request,  \* the RedactRequest passed to redact_text
    flags,    \* redact_text's keyword arguments
    pc,       \* where the coroutine is suspended: the await it waits on
    loc,      \* the local variables of redact_text and _hybrid_redact
    result,   \* what redact_text returned: (success, response, error)
    calls,    \* the detector operations invoked so far, in order
    prev,     \* the outcome of the run before this one, None in a first run
    registry, \* the class attribute RegexRedactor.DEFAULT_TAGS, one dict
              \* shared by every request of the process
    waiting   \* the coroutine of another request, suspended at an await while
              \* this one runs; None when there is no other request

(***************************************************************************)
(* Characters and Python string primitives.                                *)
(***************************************************************************)
UpperSeq == <<"A","B","C","D","E","F","G","H","I","J","K","L","M",
              "N","O","P","Q","R","S","T","U","V","W","X","Y","Z">>
LowerSeq == <<"a","b","c","d","e","f","g","h","i","j","k","l","m",
              "n","o","p","q","r","s","t","u","v","w","x","y","z">>
Upper == {UpperSeq[k] : k \in 1..26}
Lower == {LowerSeq[k] : k \in 1..26}
Digit == {"0","1","2","3","4","5","6","7","8","9"}
Space == {" ", "\n", "\t"}
Word  == Upper \cup Lower \cup Digit \cup {"_"}

\* Python's None
None == [none |-> TRUE]

Min(a, b) == IF a <= b THEN a ELSE b
Max(a, b) == IF a >= b THEN a ELSE b

\* str.lower() / str.upper() on one character
LowerChar(c) == IF c \in Upper THEN LowerSeq[CHOOSE k \in 1..26 : UpperSeq[k] = c] ELSE c
UpperChar(c) == IF c \in Lower THEN UpperSeq[CHOOSE k \in 1..26 : LowerSeq[k] = c] ELSE c
ToLower(t) == [k \in 1..Len(t) |-> LowerChar(t[k])]
ToUpper(t) == [k \in 1..Len(t) |-> UpperChar(t[k])]

\* t[a:b], t[:b], t[a:] for non-negative a, b (Python clamps to len(t))
Slice(t, a, b) == SubSeq(t, Min(a, Len(t)) + 1, Min(b, Len(t)))
SliceTo(t, b) == Slice(t, 0, b)
SliceFrom(t, a) == Slice(t, a, Len(t))

\* t.startswith(p) at offset i
HasAt(t, p, i) == /\ i + Len(p) <= Len(t)
                  /\ \A k \in 1..Len(p) : t[i + k] = p[k]

\* t.find(p, from): lowest offset >= from where p occurs, -1 when none
Find(t, p, from) ==
    LET hits == {i \in from..(Len(t) - Len(p)) :
                    (p = <<>> \/ t[i + 1] = p[1]) /\ HasAt(t, p, i)}
    IN  IF hits = {} THEN -1 ELSE CHOOSE i \in hits : \A h \in hits : i <= h

\* str.strip(): drop leading and trailing whitespace
Strip(t) ==
    LET keep == {k \in 1..Len(t) : t[k] \notin Space}
    IN  IF keep = {} THEN <<>>
        ELSE SubSeq(t, CHOOSE k \in keep : \A h \in keep : k <= h,
                       CHOOSE k \in keep : \A h \in keep : k >= h)

(***************************************************************************)
(* Regular expressions, with the backtracking semantics of Python's re:    *)
(* Ends(t, n, i) is the sequence of offsets at which a match of node n     *)
(* starting at offset i can end, in the order the matcher tries them       *)
(* (alternatives left to right, quantifiers greedy).  The match re finds   *)
(* at i is the first one.                                                  *)
(***************************************************************************)
Inf == 99

Cls(S)         == [k |-> "cls", s |-> S]
Bnd            == [k |-> "bnd"]
Cat(xs)        == [k |-> "cat", xs |-> xs]
Alt(xs)        == [k |-> "alt", xs |-> xs]
Rep(x, lo, hi) == [k |-> "rep", x |-> x, lo |-> lo, hi |-> hi]
Opt(x)         == Rep(x, 0, 1)
Plus(x)        == Rep(x, 1, Inf)
Star(x)        == Rep(x, 0, Inf)
Ch(c)          == Cls({c})
\* a literal, and a literal under (?i:...)
Lit(p)         == Cat([k \in 1..Len(p) |-> Ch(p[k])])
ILit(p)        == Cat([k \in 1..Len(p) |-> Cls({LowerChar(p[k]), UpperChar(p[k])})])

\* \b at offset i
IsBoundary(t, i) ==
    LET before == i >= 1 /\ i <= Len(t) /\ t[i] \in Word
        after  == i < Len(t) /\ t[i + 1] \in Word
    IN  before # after

RECURSIVE Ends(_, _, _), EndsAll(_, _, _), CatEnds(_, _, _), AltEnds(_, _, _),
          RepEnds(_, _, _, _), RepAll(_, _, _, _)
Ends(t, n, i) ==
    CASE n.k = "cls" -> IF i < Len(t) /\ t[i + 1] \in n.s THEN <<i + 1>> ELSE <<>>
      [] n.k = "bnd" -> IF IsBoundary(t, i) THEN <<i>> ELSE <<>>
      [] n.k = "cat" -> CatEnds(t, n.xs, <<i>>)
      [] n.k = "alt" -> AltEnds(t, n.xs, i)
      [] n.k = "rep" -> RepEnds(t, n, 0, i)
EndsAll(t, n, starts) ==
    IF starts = <<>> THEN <<>>
    ELSE Ends(t, n, Head(starts)) \o EndsAll(t, n, Tail(starts))
CatEnds(t, xs, starts) ==
    IF xs = <<>> \/ starts = <<>> THEN starts
    ELSE CatEnds(t, Tail(xs), EndsAll(t, Head(xs), starts))
AltEnds(t, xs, i) ==
    IF xs = <<>> THEN <<>> ELSE Ends(t, Head(xs), i) \o AltEnds(t, Tail(xs), i)
RepEnds(t, n, cnt, i) ==
    (IF cnt < n.hi
       THEN RepAll(t, n, cnt + 1, SelectSeq(Ends(t, n.x, i), LAMBDA e : e > i))
       ELSE <<>>)
    \o (IF cnt >= n.lo THEN <<i>> ELSE <<>>)
RepAll(t, n, cnt, starts) ==
    IF starts = <<>> THEN <<>>
    ELSE RepEnds(t, n, cnt, Head(starts)) \o RepAll(t, n, cnt, Tail(starts))

\* re.finditer(pattern, t): the non-overlapping matches, left to right, as
\* <<start, end>> pairs
RECURSIVE FindIterFrom(_, _, _)
FindIterFrom(t, n, i) ==
    IF i > Len(t) THEN <<>>
    ELSE LET es == Ends(t, n, i)
         IN  IF es = <<>> THEN FindIterFrom(t, n, i + 1)
             ELSE <<<<i, Head(es)>>>>
                  \o FindIterFrom(t, n, IF Head(es) > i THEN Head(es) ELSE i + 1)
FindIter(t, n) == FindIterFrom(t, n, 0)

(***************************************************************************)
(* Category ids and tags.  A category id is the text of its name.          *)
(***************************************************************************)
c_email           == <<"e","m","a","i","l">>
c_ssn             == <<"s","s","n">>
c_drivers_license == <<"d","r","i","v","e","r","s","_","l","i","c","e","n","s","e">>
c_passport        == <<"p","a","s","s","p","o","r","t">>
c_biometric       == <<"b","i","o","m","e","t","r","i","c">>
\* the other categories RedactRequest accepts
c_name        == <<"n","a","m","e">>
c_phone       == <<"p","h","o","n","e">>
c_address     == <<"a","d","d","r","e","s","s">>
c_credit_card == <<"c","r","e","d","i","t","_","c","a","r","d">>
c_date        == <<"d","a","t","e">>
c_credit_score == <<"c","r","e","d","i","t","_","s","c","o","r","e">>
\* an id with no registered pattern: a detector-only category
c_voiceprint      == <<"v","o","i","c","e","p","r","i","n","t">>

D  == Cls(Digit)
U  == Cls(Upper)
S  == Cls(Space)
Sep == Opt(Cls({"-", ".", " ", "\n", "\t"}))


\* RegexRedactor.PATTERNS, the entries of the modelled categories
PATTERNS ==
    c_email :> (
        Cat(<<Bnd, Plus(Cls(Upper \cup Lower \cup Digit \cup {".", "_", "%", "+", "-"})),
              Ch("@"), Plus(Cls(Upper \cup Lower \cup Digit \cup {".", "-"})),
              Ch("."), Rep(Cls(Upper \cup Lower \cup {"|"}), 2, Inf), Bnd>>))
    @@ c_ssn :> (
        Cat(<<Opt(Cat(<<Alt(<<Cat(<<ILit(<<"S","o","c","i","a","l">>), Plus(S),
                                   ILit(<<"S","e","c","u","r","i","t","y">>)>>),
                             ILit(<<"S","S","N">>)>>),
                        Opt(Cat(<<Plus(S), ILit(<<"N","u","m","b","e","r">>)>>)),
                        Star(Cls(Space \cup {":"}))>>)),
              Bnd, Rep(D, 3, 3), Sep, Rep(D, 2, 2), Sep, Rep(D, 4, 4), Bnd>>))
    @@ c_drivers_license :> (
        Cat(<<Opt(Cat(<<Alt(<<Cat(<<ILit(<<"D","r","i","v","e","r">>), Opt(Ch("'")),
                                   Opt(Cls({"s", "S"})), Plus(S),
                                   ILit(<<"L","i","c","e","n","s","e">>)>>),
                             ILit(<<"D","L">>),
                             ILit(<<"L","i","c","e","n","s","e">>)>>),
                        Star(Cls(Space \cup {"#", ":"}))>>)),
              Alt(<<Cat(<<Bnd, Rep(U, 1, 2), Rep(D, 6, 8), Bnd>>),
                    Cat(<<Bnd, Rep(D, 8, 9), Bnd>>),
                    Cat(<<Bnd, U, Rep(D, 7, 8), Bnd>>),
                    Cat(<<Bnd, Rep(D, 2, 3), Ch("-"), Rep(D, 2, 3), Ch("-"),
                          Rep(D, 4, 6), Bnd>>)>>)>>))
    @@ c_passport :> (
        Cat(<<Opt(Cat(<<Alt(<<ILit(<<"P","a","s","s","p","o","r","t">>),
                             Cat(<<ILit(<<"P","a","s","s">>), Opt(Ch("."))>>)>>),
                        Opt(Cat(<<Plus(S),
                                  Alt(<<ILit(<<"N","u","m","b","e","r">>),
                                        Cat(<<ILit(<<"N","o">>), Opt(Ch("."))>>),
                                        Ch("#")>>)>>)),
                        Star(Cls(Space \cup {":"}))>>)),
              Alt(<<Cat(<<Bnd, Rep(U, 1, 2), Rep(D, 6, 9), Bnd>>),
                    Cat(<<Bnd, Rep(D, 8, 9), Bnd>>)>>)>>))
    @@ c_biometric :> (
        Cat(<<Opt(Cat(<<Alt(<<ILit(<<"F","i","n","g","e","r","p","r","i","n","t">>),
                             ILit(<<"B","i","o","m","e","t","r","i","c">>),
                             ILit(<<"R","e","t","i","n","a">>),
                             ILit(<<"D","N","A">>)>>),
                        Opt(Cat(<<Plus(S), Alt(<<ILit(<<"I","D">>),
                                                 ILit(<<"D","a","t","a">>)>>)>>)),
                        Star(Cls(Space \cup {"#", ":"}))>>)),
              Bnd, Rep(Cls(Upper \cup Digit), 8, 20), Bnd>>))
    @@ c_name :> (
        Cat(<<Bnd, U, Plus(Cls(Lower \cup {"'", "-"})),
              Opt(Cat(<<Plus(S), U, Opt(Ch(".")), Star(S)>>)),
              Rep(Cat(<<Plus(S), U, Plus(Cls(Lower \cup {"'", "-"}))>>), 1, 2),
              Opt(Cat(<<Plus(S),
                        Alt(<<Cat(<<Lit(<<"J","r">>), Opt(Ch("."))>>),
                              Cat(<<Lit(<<"S","r">>), Opt(Ch("."))>>),
                              Lit(<<"I","I","I">>), Lit(<<"I","V">>), Ch("V")>>)>>)),
              Bnd>>))
    @@ c_phone :> (
        Cat(<<Bnd, Opt(Cat(<<Opt(Ch("+")), Ch("1"), Sep>>)),
              Opt(Ch("(")), Rep(D, 3, 3), Opt(Ch(")")), Sep,
              Rep(D, 3, 3), Sep, Rep(D, 4, 4), Bnd>>))
    @@ c_credit_score :> (
        Cat(<<Opt(Cat(<<Alt(<<Cat(<<ILit(<<"C","r","e","d","i","t">>), Plus(S),
                                   ILit(<<"S","c","o","r","e">>)>>),
                             ILit(<<"F","I","C","O">>),
                             ILit(<<"S","c","o","r","e">>)>>),
                        Star(Cls(Space \cup {":"}))>>)),
              Bnd, Cls({"3", "4", "5", "6", "7", "8"}), Rep(D, 2, 2), Bnd>>))

\* RegexRedactor.DEFAULT_TAGS: every entry of the source table is
\* "[REDACTED_" + key.upper() + "]"
TagFor(name) == <<"[","R","E","D","A","C","T","E","D","_">> \o ToUpper(name) \o <<"]">>
DEFAULT_TAGS == [c \in DOMAIN PATTERNS |-> TagFor(c)]

\* RegexRedactor.is_type_supported
is_type_supported(pii_type) == pii_type \in DOMAIN PATTERNS

\* dict.update / {**a, **b}: b's entries override a's
Update(a, b) == [k \in DOMAIN a \cup DOMAIN b |-> IF k \in DOMAIN b THEN b[k] ELSE a[k]]
\* tags.get(pii_type, f"[REDACTED_{pii_type.upper()}]")
TagOf(tags, pii_type) == IF pii_type \in DOMAIN tags THEN tags[pii_type] ELSE TagFor(pii_type)

\* RegexRedactor._is_likely_name
_is_likely_name(text) ==
    LET \* cls.COMMON_FIRST_NAMES and cls.COMMON_LAST_NAMES: of their 160 and
        \* 223 entries, the ones among the words of the texts submitted
        COMMON_FIRST_NAMES == {<<"j","o","h","n">>}
        COMMON_LAST_NAMES == {<<"s","m","i","t","h">>}
        \* text.split()
        ranges == {r \in (0..Len(text)) \X (0..Len(text)) :
                      /\ r[1] < r[2]
                      /\ \A k \in (r[1] + 1)..r[2] : text[k] \notin Space
                      /\ (r[1] = 0 \/ text[r[1]] \in Space)
                      /\ (r[2] = Len(text) \/ text[r[2] + 1] \in Space)}
        n == Cardinality(ranges)
        parts == [k \in 1..n |->
                     LET r == CHOOSE r \in ranges :
                                  Cardinality({q \in ranges : q[1] < r[1]}) = k - 1
                     IN  Slice(text, r[1], r[2])]
        first_name == ToLower(parts[1])
        last_name == ToLower(parts[n])
        \* part[1:].islower(): a cased character, and none in upper case
        rest_islower(part) == /\ \E k \in 2..Len(part) : part[k] \in Lower
                              /\ \A k \in 2..Len(part) : part[k] \notin Upper
        initial(part) == Len(part) = 2 /\ part[2] = "."
    IN  IF n < 2 \/ n > 4 THEN FALSE
        ELSE IF first_name \in COMMON_FIRST_NAMES /\ last_name \in COMMON_LAST_NAMES
        THEN TRUE
        ELSE IF first_name \in COMMON_FIRST_NAMES \/ last_name \in COMMON_LAST_NAMES
        THEN \A k \in 1..n :
                 \/ parts[k][1] \in Upper /\ rest_islower(parts[k])
                 \/ initial(parts[k])
        ELSE \A k \in 1..n :
                 /\ Len(parts[k]) >= 2
                 /\ parts[k][1] \in Upper
                 /\ \A j \in 1..Len(parts[k]) :
                        parts[k][j] \in Upper \cup Lower \cup {"'", "-", "."}

\* org_indicators of RegexRedactor._is_likely_organization
org_indicators ==
    {<<"c","o","m","p","a","n","y">>,
     <<"c","o","r","p">>,
     <<"c","o","r","p","o","r","a","t","i","o","n">>,
     <<"i","n","c">>,
     <<"l","l","c">>,
     <<"l","t","d">>,
     <<"l","i","m","i","t","e","d">>,
     <<"h","o","s","p","i","t","a","l">>,
     <<"m","e","d","i","c","a","l">>,
     <<"c","e","n","t","e","r">>,
     <<"c","l","i","n","i","c">>,
     <<"u","n","i","v","e","r","s","i","t","y">>,
     <<"c","o","l","l","e","g","e">>,
     <<"s","c","h","o","o","l">>,
     <<"b","a","n","k">>,
     <<"i","n","s","u","r","a","n","c","e">>,
     <<"s","e","r","v","i","c","e">>,
     <<"s","e","r","v","i","c","e","s">>,
     <<"s","o","l","u","t","i","o","n","s">>,
     <<"g","r","o","u","p">>,
     <<"a","s","s","o","c","i","a","t","e","s">>,
     <<"p","a","r","t","n","e","r","s">>,
     <<"f","i","r","m">>,
     <<"o","f","f","i","c","e">>,
     <<"d","e","p","a","r","t","m","e","n","t">>,
     <<"d","i","v","i","s","i","o","n">>,
     <<"t","e","a","m">>,
     <<"o","r","g","a","n","i","z","a","t","i","o","n">>,
     <<"f","o","u","n","d","a","t","i","o","n">>,
     <<"i","n","s","t","i","t","u","t","e">>,
     <<"a","u","t","h","o","r","i","t","y">>,
     <<"a","g","e","n","c","y">>,
     <<"c","o","m","m","i","s","s","i","o","n">>,
     <<"b","o","a","r","d">>,
     <<"c","o","u","n","c","i","l">>,
     <<"c","o","m","m","i","t","t","e","e">>}

\* RegexRedactor._validate_pii_match for the modelled categories
_validate_pii_match(text, pii_type) ==
    LET text_lower == Strip(ToLower(text))
        false_positives == {<<"t","e","s","t">>, <<"e","x","a","m","p","l","e">>,
                            <<"s","a","m","p","l","e">>, <<"d","u","m","m","y">>}
        \* _is_likely_organization: any(indicator in text.lower())
        _is_likely_organization ==
            \E indicator \in org_indicators : Find(ToLower(text), indicator, 0) # -1
        \* score = int(text), ValueError when the text is not a number
        digits == <<"0","1","2","3","4","5","6","7","8","9">>
        stripped == Strip(text)
        signed == stripped # <<>> /\ stripped[1] \in {"+", "-"}
        body == IF signed THEN Tail(stripped) ELSE stripped
        value[k \in 0..Len(body)] ==
            IF k = 0 THEN 0
            ELSE 10 * value[k - 1] + (CHOOSE d \in 0..9 : digits[d + 1] = body[k])
        ValueError == body = <<>> \/ \E k \in 1..Len(body) : body[k] \notin Digit
        score == IF signed /\ stripped[1] = "-" THEN 0 - value[Len(body)]
                 ELSE value[Len(body)]
        digits_only == {k \in 1..Len(text) : text[k] \in Digit}
    IN  CASE pii_type = c_name -> _is_likely_name(text) /\ ~_is_likely_organization
          [] pii_type = c_credit_score ->
                 IF ValueError THEN FALSE ELSE 300 <= score /\ score <= 850
          [] pii_type = c_phone ->
                 10 <= Cardinality(digits_only) /\ Cardinality(digits_only) <= 15
          [] pii_type = c_drivers_license -> text_lower \notin false_positives
          [] OTHER -> TRUE

\* list.sort(key=start): stable insertion sort, ascending
RECURSIVE InsertAsc(_, _), SortAsc(_)
InsertAsc(sorted, m) ==
    IF sorted = <<>> THEN <<m>>
    ELSE IF sorted[Len(sorted)].start <= m.start THEN Append(sorted, m)
    ELSE Append(InsertAsc(SubSeq(sorted, 1, Len(sorted) - 1), m), sorted[Len(sorted)])
SortAsc(ms) ==
    IF ms = <<>> THEN <<>>
    ELSE InsertAsc(SortAsc(SubSeq(ms, 1, Len(ms) - 1)), ms[Len(ms)])
\* (a variant of the sort below: the list is left in the order it has)
SortDesc_unsorted(ms) == ms
\* list.sort(key=start, reverse=True): descending, equal keys keep their order
RECURSIVE InsertDesc(_, _), SortDesc(_)
InsertDesc(sorted, m) ==
    IF sorted = <<>> THEN <<m>>
    ELSE IF sorted[Len(sorted)].start >= m.start THEN Append(sorted, m)
    ELSE Append(InsertDesc(SubSeq(sorted, 1, Len(sorted) - 1), m), sorted[Len(sorted)])
SortDesc(ms) ==
    IF ms = <<>> THEN <<>>
    ELSE InsertDesc(SortDesc(SubSeq(ms, 1, Len(ms) - 1)), ms[Len(ms)])
Reverse(ms) == [k \in 1..Len(ms) |-> ms[Len(ms) + 1 - k]]

\* RedactionMatch; confidence is kept in tenths (1.0 -> 10, 0.9 -> 9)
RedactionMatch(start, end, text, pii_type, replacement, confidence) ==
    [start |-> start, end |-> end, text |-> text, pii_type |-> pii_type,
     replacement |-> replacement, confidence |-> confidence]

\* RegexRedactor.find_pii_matches
RECURSIVE MatchesOfType(_, _, _, _), MatchesOfTypes(_, _, _)
MatchesOfType(text, pii_type, replacement, found) ==
    IF found = <<>> THEN <<>>
    ELSE LET s == Head(found)[1]
             e == Head(found)[2]
             match_text == Slice(text, s, e)
             rest == MatchesOfType(text, pii_type, replacement, Tail(found))
         IN  IF _validate_pii_match(match_text, pii_type)
             THEN <<RedactionMatch(s, e, match_text, pii_type, replacement, 10)>> \o rest
             ELSE rest
MatchesOfTypes(text, pii_types, tags) ==
    IF pii_types = <<>> THEN <<>>
    ELSE LET pii_type == Head(pii_types)
             rest == MatchesOfTypes(text, Tail(pii_types), tags)
         IN  IF pii_type \in DOMAIN PATTERNS
             THEN MatchesOfType(text, pii_type, TagOf(tags, pii_type),
                                FindIter(text, PATTERNS[pii_type])) \o rest
             ELSE rest
find_pii_matches(text, pii_types, custom_tags) ==
    SortAsc(MatchesOfTypes(text, pii_types, Update(registry, custom_tags)))

\* the substitution loop: for each match in order,
\* redacted = redacted[:start] + replacement + redacted[end:]
RECURSIVE Substitute(_, _)
Substitute(text, ms) ==
    IF ms = <<>> THEN text
    ELSE Substitute(SliceTo(text, Head(ms).start) \o Head(ms).replacement
                    \o SliceFrom(text, Head(ms).end), Tail(ms))

\* the summary built by RegexRedactor.redact_text
CountOfType(ms, pii_type) == Cardinality({k \in 1..Len(ms) : ms[k].pii_type = pii_type})
Range(f) == {f[k] : k \in DOMAIN f}

\* RegexRedactor.redact_text: [text, summary]
RegexRedactor_redact_text(text, pii_types, custom_tags) ==
    LET matches == find_pii_matches(text, pii_types, custom_tags)
    IN  [text |-> Substitute(text, Reverse(matches)),
         summary |-> [c \in Range(pii_types) |-> CountOfType(matches, c)]]

(***************************************************************************)
(* PIIValidator (pii_validator.py): the gap validator.                     *)
(***************************************************************************)
\* PIIValidator.NON_PII_WORDS
NON_PII_WORDS == {
    <<"a","p","r","i","l">>, <<"a","u","g","u","s","t">>, <<"a","v","e","n","u","e">>,
    <<"b","o","u","l","e","v","a","r","d">>, <<"b","u","i","l","d","i","n","g">>,
    <<"c","o","l","l","e","g","e">>, <<"c","o","m","p","a","n","y">>,
    <<"c","o","r","p","o","r","a","t","i","o","n">>, <<"d","e","a","r">>,
    <<"d","e","c","e","m","b","e","r">>, <<"d","e","p","a","r","t","m","e","n","t">>,
    <<"d","e","v","i","c","e">>, <<"f","e","b","r","u","a","r","y">>, <<"f","r","i","d","a","y">>,
    <<"h","e","l","l","o">>, <<"h","e","y">>, <<"h","i">>, <<"h","o","s","p","i","t","a","l">>,
    <<"i","n","c">>, <<"i","n","c","o","r","p","o","r","a","t","e","d">>,
    <<"j","a","n","u","a","r","y">>, <<"j","u","l","y">>, <<"j","u","n","e">>, <<"l","a","n","e">>,
    <<"l","l","c">>, <<"l","t","d">>, <<"m","a","r","c","h">>, <<"m","a","y">>,
    <<"m","o","d","e","l">>, <<"m","o","n","d","a","y">>, <<"n","o","v","e","m","b","e","r">>,
    <<"o","c","t","o","b","e","r">>, <<"p","l","e","a","s","e">>, <<"p","r","o","d","u","c","t">>,
    <<"r","e","f","e","r","e","n","c","e">>, <<"r","e","g","a","r","d","i","n","g">>,
    <<"r","e","g","a","r","d","s">>, <<"r","o","a","d">>, <<"s","a","t","u","r","d","a","y">>,
    <<"s","c","h","o","o","l">>, <<"s","e","p","t","e","m","b","e","r">>,
    <<"s","e","r","v","i","c","e">>, <<"s","i","n","c","e","r","e","l","y">>,
    <<"s","t","r","e","e","t">>, <<"s","u","b","j","e","c","t">>, <<"s","u","n","d","a","y">>,
    <<"s","y","s","t","e","m">>, <<"t","h","a","n","k">>, <<"t","h","a","n","k","s">>,
    <<"t","h","u","r","s","d","a","y">>, <<"t","u","e","s","d","a","y">>,
    <<"u","n","i","v","e","r","s","i","t","y">>, <<"w","e","d","n","e","s","d","a","y">>}

\* PIIValidator.PII_CONTEXTUAL_CLUES as <<type, clue>> pairs, in the table's order
PII_CONTEXTUAL_CLUES == <<
    <<<<"n","a","m","e">>, <<"n","a","m","e",":">>>>,
    <<<<"n","a","m","e">>, <<"f","u","l","l"," ","n","a","m","e",":">>>>,
    <<<<"n","a","m","e">>, <<"f","i","r","s","t"," ","n","a","m","e",":">>>>,
    <<<<"n","a","m","e">>, <<"l","a","s","t"," ","n","a","m","e",":">>>>,
    <<<<"n","a","m","e">>, <<"p","a","t","i","e","n","t",":">>>>,
    <<<<"n","a","m","e">>, <<"c","u","s","t","o","m","e","r",":">>>>,
    <<<<"s","s","n">>, <<"s","s","n",":">>>>,
    <<<<"s","s","n">>, <<"s","o","c","i","a","l"," ","s","e","c","u","r","i","t","y",":">>>>,
    <<<<"s","s","n">>, <<"s","o","c","i","a","l"," ","s","e","c","u","r","i","t","y"," ","n","u","m","b","e","r",":">>>>,
    <<<<"s","s","n">>, <<"s","s","#",":">>>>,
    <<<<"p","h","o","n","e">>, <<"p","h","o","n","e",":">>>>,
    <<<<"p","h","o","n","e">>, <<"t","e","l","e","p","h","o","n","e",":">>>>,
    <<<<"p","h","o","n","e">>, <<"c","e","l","l",":">>>>,
    <<<<"p","h","o","n","e">>, <<"m","o","b","i","l","e",":">>>>,
    <<<<"p","h","o","n","e">>, <<"c","o","n","t","a","c","t",":">>>>,
    <<<<"e","m","a","i","l">>, <<"e","m","a","i","l",":">>>>,
    <<<<"e","m","a","i","l">>, <<"e","-","m","a","i","l",":">>>>,
    <<<<"e","m","a","i","l">>, <<"m","a","i","l",":">>>>,
    <<<<"e","m","a","i","l">>, <<"c","o","n","t","a","c","t",":">>>>,
    <<<<"a","d","d","r","e","s","s">>, <<"a","d","d","r","e","s","s",":">>>>,
    <<<<"a","d","d","r","e","s","s">>, <<"r","e","s","i","d","e","n","c","e",":">>>>,
    <<<<"a","d","d","r","e","s","s">>, <<"l","o","c","a","t","i","o","n",":">>>>,
    <<<<"a","d","d","r","e","s","s">>, <<"l","i","v","e","s"," ","a","t",":">>>>,
    <<<<"a","d","d","r","e","s","s">>, <<"l","i","v","e","s"," ","i","n",":">>>>,
    <<<<"d","o","b">>, <<"d","o","b",":">>>>,
    <<<<"d","o","b">>, <<"d","a","t","e"," ","o","f"," ","b","i","r","t","h",":">>>>,
    <<<<"d","o","b">>, <<"b","o","r","n"," ","o","n",":">>>>,
    <<<<"d","o","b">>, <<"b","i","r","t","h"," ","d","a","t","e",":">>>>,
    <<<<"c","r","e","d","i","t","_","c","a","r","d">>, <<"c","c",":">>>>,
    <<<<"c","r","e","d","i","t","_","c","a","r","d">>, <<"c","r","e","d","i","t"," ","c","a","r","d",":">>>>,
    <<<<"c","r","e","d","i","t","_","c","a","r","d">>, <<"c","a","r","d"," ","n","u","m","b","e","r",":">>>>,
    <<<<"c","r","e","d","i","t","_","c","a","r","d">>, <<"c","c","#",":">>>>,
    <<<<"c","r","e","d","i","t","_","c","a","r","d">>, <<"c","a","r","d",":">>>>,
    <<<<"a","c","c","o","u","n","t">>, <<"a","c","c","o","u","n","t",":">>>>,
    <<<<"a","c","c","o","u","n","t">>, <<"a","c","c","t",":">>>>,
    <<<<"a","c","c","o","u","n","t">>, <<"a","c","c","o","u","n","t"," ","n","u","m","b","e","r",":">>>>,
    <<<<"a","c","c","o","u","n","t">>, <<"a","c","c","t","#",":">>>>,
    <<<<"l","i","c","e","n","s","e">>, <<"l","i","c","e","n","s","e",":">>>>,
    <<<<"l","i","c","e","n","s","e">>, <<"d","l","#",":">>>>,
    <<<<"l","i","c","e","n","s","e">>, <<"d","r","i","v","e","r","'","s"," ","l","i","c","e","n","s","e",":">>>>,
    <<<<"l","i","c","e","n","s","e">>, <<"l","i","c","e","n","s","e"," ","n","u","m","b","e","r",":">>>>,
    <<<<"p","a","s","s","p","o","r","t">>, <<"p","a","s","s","p","o","r","t",":">>>>,
    <<<<"p","a","s","s","p","o","r","t">>, <<"p","a","s","s","p","o","r","t"," ","n","u","m","b","e","r",":">>>>,
    <<<<"p","a","s","s","p","o","r","t">>, <<"p","a","s","s","p","o","r","t","#",":">>>>>>

v_zip_code    == <<"z","i","p","_","c","o","d","e">>
v_ip_address  == <<"i","p","_","a","d","d","r","e","s","s">>
v_possible_id == <<"p","o","s","s","i","b","l","e","_","i","d">>

\* PIIValidator.VALIDATION_PATTERNS as <<type, pattern>> pairs, in the table's order
VALIDATION_PATTERNS == <<
    <<c_email, Cat(<<Bnd, Rep(Cls(Upper \cup Lower \cup Digit \cup {".", "_", "-"}), 2, Inf), Ch("@"),
                    Rep(Cls(Upper \cup Lower \cup Digit \cup {".", "-"}), 2, Inf), Ch("."),
                    Rep(Cls(Upper \cup Lower), 2, Inf), Bnd>>)>>,
    <<c_phone, Cat(<<Opt(Cat(<<Opt(Ch("+")), Rep(D, 1, 3), Sep>>)),
                    Opt(Ch("(")), Rep(D, 3, 3), Opt(Ch(")")), Sep,
                    Rep(D, 3, 3), Sep, Rep(D, 4, 4), Bnd>>)>>,
    <<c_ssn, Cat(<<Bnd, Rep(D, 3, 3), Opt(Cls({"-", "."})), Rep(D, 2, 2),
                  Opt(Cls({"-", "."})), Rep(D, 4, 4), Bnd>>)>>,
    <<c_credit_card, Cat(<<Bnd, Rep(Cat(<<Rep(D, 4, 4), Opt(Cls({"-"} \cup Space))>>), 3, 3),
                          Rep(D, 4, 4), Bnd>>)>>,
    <<v_zip_code, Cat(<<Bnd, Rep(D, 5, 5), Opt(Cat(<<Ch("-"), Rep(D, 4, 4)>>)), Bnd>>)>>,
    <<v_ip_address, Cat(<<Bnd, Rep(Cat(<<Rep(D, 1, 3), Ch(".")>>), 3, 3), Rep(D, 1, 3), Bnd>>)>>,
    <<c_date, Cat(<<Bnd,
                   Alt(<<Cat(<<Opt(Ch("0")), Cls(Digit \ {"0"})>>), Cat(<<Ch("1"), Cls({"0", "1", "2"})>>)>>),
                   Cls({"/", "-"}),
                   Alt(<<Cat(<<Opt(Ch("0")), Cls(Digit \ {"0"})>>), Cat(<<Cls({"1", "2"}), D>>),
                         Cat(<<Ch("3"), Cls({"0", "1"})>>)>>),
                   Cls({"/", "-"}),
                   Opt(Alt(<<Lit(<<"1","9">>), Lit(<<"2","0">>)>>)), Rep(D, 2, 2), Bnd>>)>> >>

\* PIIValidator._is_already_redacted; ranges are <<start, end>> pairs
_is_already_redacted(start, end, already_redacted) ==
    \E k \in 1..Len(already_redacted) :
        ~(end <= already_redacted[k][1] \/ start >= already_redacted[k][2])

\* a candidate of validate_text; confidence in tenths (0.8 -> 8)
Candidate(type, text, start, end, confidence, reason) ==
    [type |-> type, text |-> text, start |-> start, end |-> end,
     confidence |-> confidence, reason |-> reason]

\* validate_text, scan 1: contextual clues (first occurrence of each clue)
\* (lower is text.lower())
RECURSIVE ClueScan(_, _, _, _)
ClueScan(text, lower, already_redacted, clues) ==
    IF clues = <<>> THEN <<>>
    ELSE LET pii_type == Head(clues)[1]
             clue == Head(clues)[2]
             clue_pos == Find(lower, clue, 0)
             end_of_clue == clue_pos + Len(clue)
             nl == Find(text, <<"\n">>, end_of_clue)
             end_of_line == IF nl = -1 THEN Len(text) ELSE nl
             after_clue == Strip(Slice(text, end_of_clue, end_of_line))
             rest == ClueScan(text, lower, already_redacted, Tail(clues))
         IN  IF /\ clue_pos >= 0
                /\ after_clue # <<>>
                /\ ~_is_already_redacted(end_of_clue, end_of_line, already_redacted)
             THEN <<Candidate(pii_type, after_clue, end_of_clue, end_of_line, 8, "clue")>>
                  \o rest
             ELSE rest

\* validate_text, scans 2 and 3: the matches of one pattern that are not
\* already redacted and not stop-listed
RECURSIVE ScanMatches(_, _, _, _, _, _)
ScanMatches(text, already_redacted, pii_type, found, confidence, reason) ==
    IF found = <<>> THEN <<>>
    ELSE LET start == Head(found)[1]
             end == Head(found)[2]
             group == Slice(text, start, end)
             rest == ScanMatches(text, already_redacted, pii_type, Tail(found),
                                 confidence, reason)
         IN  IF \/ _is_already_redacted(start, end, already_redacted)
                \/ ToLower(group) \in NON_PII_WORDS
             THEN rest
             ELSE <<Candidate(pii_type, group, start, end, confidence, reason)>> \o rest
RECURSIVE PatternScan(_, _, _)
PatternScan(text, already_redacted, patterns) ==
    IF patterns = <<>> THEN <<>>
    ELSE ScanMatches(text, already_redacted, Head(patterns)[1],
                     FindIter(text, Head(patterns)[2]), 9, "pattern")
         \o PatternScan(text, already_redacted, Tail(patterns))

\* PIIValidator.validate_text
validate_text(text, already_redacted) ==
    ClueScan(text, ToLower(text), already_redacted, PII_CONTEXTUAL_CLUES)
    \o PatternScan(text, already_redacted, VALIDATION_PATTERNS)
    \o ScanMatches(text, already_redacted, v_possible_id,
                   FindIter(text, Cat(<<Bnd, Rep(Cls(Upper \cup Digit), 6, 12), Bnd>>)), 6, "id")

\* enhance_redaction, the alignment walk: the ranges of the redacted text
\* taken to be tags already in place
RECURSIVE TagEnd(_, _), Resync(_, _, _, _), Align(_, _, _, _)
TagEnd(redacted_text, j) ==
    IF j < Len(redacted_text) /\ redacted_text[j + 1] # "]"
    THEN TagEnd(redacted_text, j + 1) ELSE j
Resync(original_text, redacted_text, i, j) ==
    IF i < Len(original_text)
       /\ (j >= Len(redacted_text) \/ original_text[i + 1] # redacted_text[j + 1])
    THEN Resync(original_text, redacted_text, i + 1, j) ELSE i
Align(original_text, redacted_text, i, j) ==
    IF ~(i < Len(original_text) /\ j < Len(redacted_text)) THEN <<>>
    ELSE IF original_text[i + 1] # redacted_text[j + 1]
    THEN LET j1 == TagEnd(redacted_text, j)
             redaction_end == IF j1 < Len(redacted_text) THEN j1 + 1 ELSE j1
         IN  <<<<j, redaction_end>>>>
             \o Align(original_text, redacted_text,
                      Resync(original_text, redacted_text, i, redaction_end),
                      redaction_end)
    ELSE Align(original_text, redacted_text, i + 1, j + 1)

\* the confidence, in tenths, from which enhance_redaction substitutes a candidate
MinConfidence == 8

\* PIIValidator.enhance_redaction, up to the sort: the candidates found in the
\* redacted text, last position first
missed_pii(original_text, redacted_text) ==
    SortDesc(validate_text(redacted_text, Align(original_text, redacted_text, 0, 0)))
\* PIIValidator.enhance_redaction, the loop that applies the candidates
apply_missed_pii(redacted_text, potential_missed_pii) ==
    LET applied == SelectSeq(potential_missed_pii,
                             LAMBDA pii : pii.confidence >= MinConfidence)
    IN  Substitute(redacted_text,
                   [k \in 1..Len(applied) |->
                       RedactionMatch(applied[k].start, applied[k].end, applied[k].text,
                                      applied[k].type, TagFor(applied[k].type),
                                      applied[k].confidence)])
\* PIIValidator.enhance_redaction
enhance_redaction(original_text, redacted_text) ==
    apply_missed_pii(redacted_text, missed_pii(original_text, redacted_text))

(***************************************************************************)
(* RegexRedactor.clean_overlapping_redactions                              *)
(***************************************************************************)
\* re.sub(pattern, repl, t) for a constant replacement
RECURSIVE SubFrom(_, _, _, _)
SubFrom(t, found, repl, pos) ==
    IF found = <<>> THEN SliceFrom(t, pos)
    ELSE Slice(t, pos, Head(found)[1]) \o repl \o SubFrom(t, Tail(found), repl, Head(found)[2])
Sub(t, n, repl) == SubFrom(t, FindIter(t, n), repl, 0)

clean_overlapping_redactions(text) ==
    LET tag == Cat(<<Lit(<<"[","R","E","D","A","C","T","E","D","_">>),
                     Plus(Cls(Upper \cup {"_"})), Ch("]")>>)
        pattern == Cat(<<tag, Plus(Cat(<<Star(S), tag>>))>>)
        \* replace_consecutive
        cleaned_1 == Sub(text, pattern, <<"[","R","E","D","A","C","T","E","D","]">>)
        cleaned_2 == Sub(cleaned_1,
                         Cat(<<Plus(S), Lit(<<"[","R","E","D","A","C","T","E","D">>)>>),
                         <<" ","[","R","E","D","A","C","T","E","D">>)
    IN  Sub(cleaned_2, Cat(<<Ch("]"), Plus(S)>>), <<"]"," ">>)

(***************************************************************************)
(* ImprovedPIIService helpers                                              *)
(***************************************************************************)
\* the keys of tag_to_type in insertion order, and the type each maps to
\* (a later type with the same tag overrides the earlier one)
RECURSIVE TagKeys(_, _, _)
TagKeys(tags, pii_types, seen) ==
    IF pii_types = <<>> THEN <<>>
    ELSE LET tag == TagOf(tags, Head(pii_types))
         IN  IF tag \in seen THEN TagKeys(tags, Tail(pii_types), seen)
             ELSE <<tag>> \o TagKeys(tags, Tail(pii_types), seen \cup {tag})
TypeOfTag(tags, pii_types, tag) ==
    LET ks == {k \in 1..Len(pii_types) : TagOf(tags, pii_types[k]) = tag}
    IN  pii_types[CHOOSE k \in ks : \A h \in ks : k >= h]

\* the occurrences of one tag in the detector's text: the while loop
RECURSIVE TagOccurrences(_, _, _, _)
TagOccurrences(redacted_text, tag, pii_type, start_idx) ==
    LET tag_idx == Find(redacted_text, tag, start_idx)
    IN  IF tag_idx = -1 THEN <<>>
        ELSE <<RedactionMatch(tag_idx, tag_idx + Len(tag),
                              <<"L","L","M","_","D","E","T","E","C","T","E","D","_">> \o pii_type,
                              pii_type, tag, 9)>>
             \o TagOccurrences(redacted_text, tag, pii_type, tag_idx + Len(tag))
RECURSIVE OccurrencesOfTags(_, _, _, _)
OccurrencesOfTags(redacted_text, tags, pii_types, keys) ==
    IF keys = <<>> THEN <<>>
    ELSE TagOccurrences(redacted_text, Head(keys),
                        TypeOfTag(tags, pii_types, Head(keys)), 0)
         \o OccurrencesOfTags(redacted_text, tags, pii_types, Tail(keys))

\* ImprovedPIIService._extract_llm_matches
_extract_llm_matches(original_text, redacted_text, pii_types, custom_tags) ==
    LET tags == Update(registry, custom_tags)
    IN  OccurrencesOfTags(redacted_text, tags, pii_types, TagKeys(tags, pii_types, {}))

\* the overlap test of _combine_and_deduplicate_matches
\* (a variant of the test below: only an identical range counts as overlap)
OverlapsAny_identical(m, match_ranges) == <<m.start, m.end>> \in match_ranges
OverlapsAny(m, match_ranges) ==
    \E r \in match_ranges : ~(m.end <= r[1] \/ m.start >= r[2])

\* ImprovedPIIService._combine_and_deduplicate_matches
RECURSIVE AddLLMMatches(_, _, _)
AddLLMMatches(all_matches, match_ranges, llm_matches) ==
    IF llm_matches = <<>> THEN all_matches
    ELSE LET llm_match == Head(llm_matches)
         IN  IF OverlapsAny(llm_match, match_ranges)
             THEN AddLLMMatches(all_matches, match_ranges, Tail(llm_matches))
             ELSE AddLLMMatches(Append(all_matches, llm_match),
                                match_ranges \cup {<<llm_match.start, llm_match.end>>},
                                Tail(llm_matches))
_combine_and_deduplicate_matches(regex_matches, llm_matches) ==
    AddLLMMatches(regex_matches,
                  {<<regex_matches[k].start, regex_matches[k].end>> :
                       k \in 1..Len(regex_matches)},
                  llm_matches)

(***************************************************************************)
(* OllamaClient: what the client makes of the detector's HTTP reply.       *)
(* A reply is [ok |-> FALSE] (connection error, timeout, status other than *)
(* 200, undecodable body) or [ok |-> TRUE, text |-> the "response" field]. *)
(***************************************************************************)
\* OllamaClient.generate_text: (success, response_text)
generate_text(reply) ==
    IF reply.ok THEN [success |-> TRUE, text |-> Strip(reply.text)]
    ELSE [success |-> FALSE, text |-> <<>>]

\* the markdown fence, three backticks; a backtick cannot be written in a string
\* here, so the character "^", which occurs in no pattern or tag, stands for it
Fence == <<"^", "^", "^">>
\* OllamaClient.redact_pii, after the call: strip and drop a markdown fence
redact_pii(reply) ==
    LET gen == generate_text(reply)
        redacted_text == Strip(gen.text)
        nls == {k \in 1..Len(redacted_text) : redacted_text[k] = "\n"}
        first == CHOOSE k \in nls : \A h \in nls : k <= h
        last == CHOOSE k \in nls : \A h \in nls : k >= h
    IN  IF ~gen.success THEN [success |-> FALSE, text |-> <<>>]
        ELSE IF HasAt(redacted_text, Fence, 0) /\ Cardinality(nls) >= 2
        THEN [success |-> TRUE, text |-> SubSeq(redacted_text, first + 1, last - 1)]
        ELSE [success |-> TRUE, text |-> redacted_text]

\* the detector's reply to the analysis prompt, as json.loads sees it:
\* [ok |-> FALSE], or [ok |-> TRUE, kind |-> ...] with kind "invalid" (not
\* JSON), "scalar" (a number, true, null), "string" (s: its text), "array"
\* (items: its string elements) or "object" (map: key -> value).  A value
\* that is not an integer is written NonInt.
NonInt == -1

\* OllamaClient.analyze_pii: [success, isdict, summary]; isdict is FALSE
\* when the value handed back as the summary is not a dict
analyze_pii(reply, redact_types) ==
    LET failed == [success |-> FALSE, isdict |-> TRUE, summary |-> <<>>]
        types == Range(redact_types)
    IN  IF ~reply.ok THEN failed
        ELSE CASE reply.kind = "invalid" -> failed
               [] reply.kind = "scalar" ->
                    \* "pii_type not in 5" raises TypeError, caught
                    IF types = {} THEN [success |-> TRUE, isdict |-> FALSE, summary |-> <<>>]
                    ELSE failed
               [] reply.kind = "string" ->
                    \* "pii_type not in s" is a substring test; the first type missing
                    \* from the string is assigned to: TypeError
                    IF \A c \in types : Find(reply.s, c, 0) >= 0
                    THEN [success |-> TRUE, isdict |-> FALSE, summary |-> <<>>]
                    ELSE failed
               [] reply.kind = "array" ->
                    IF \A c \in types : c \in reply.items
                    THEN [success |-> TRUE, isdict |-> FALSE, summary |-> <<>>]
                    ELSE failed
               [] reply.kind = "object" ->
                    [success |-> TRUE, isdict |-> TRUE,
                     summary |-> [c \in DOMAIN reply.map \cup types |->
                                     IF c \in DOMAIN reply.map THEN reply.map[c] ELSE 0]]

(***************************************************************************)
(* Requests (models.py)                                                    *)
(***************************************************************************)
\* RedactRequest.validate_redact_types
valid_types == {c_name, c_email, c_phone, c_address, c_credit_card, c_date}

\* (a variant of the constructor below: the categories are validated, the
\* keys of custom_tags are not)
RedactRequest_accepts_any_tags(text, types, custom_tags) ==
    /\ Len(text) >= 1
    /\ \A c \in types : c \in valid_types
\* RedactRequest(...): TRUE when the constructor accepts the fields
RedactRequest_accepts(text, types, custom_tags) ==
    /\ Len(text) >= 1
    /\ \A c \in types : c \in valid_types
    /\ \A c \in DOMAIN custom_tags : c \in types

\* get_all_supported_pii_types: the keys of PATTERNS and of
\* PromptGenerator.PII_DESCRIPTIONS, which are the same 22 ids in the source
get_all_supported_pii_types == DOMAIN PATTERNS

\* the orders list(set(xs)) can come out in
Orderings(set) ==
    {q \in [1..Cardinality(set) -> set] : \A c \in set : \E k \in DOMAIN q : q[k] = c}

RedactResponse(original, redacted, summary, redact_types_used) ==
    [original |-> original, redacted |-> redacted, summary |-> summary,
     redact_types_used |-> redact_types_used]

(***************************************************************************)
(* The orchestrators                                                       *)
(***************************************************************************)
\* "Combine summaries" of both _hybrid_redact methods
CombineSummaries(regex_summary, llm_summary, redact_types) ==
    [c \in DOMAIN regex_summary \cup DOMAIN llm_summary \cup Range(redact_types) |->
        IF c \in DOMAIN llm_summary
        THEN Max(IF c \in DOMAIN regex_summary THEN regex_summary[c] ELSE 0, llm_summary[c])
        ELSE IF c \in DOMAIN regex_summary THEN regex_summary[c] ELSE 0]

\* sum(llm_summary.values()) and max(..., count) raise on a summary that is
\* not a dict of integers
SummaryRaises(analysis) ==
    \/ ~analysis.isdict
    \/ \E c \in DOMAIN analysis.summary : analysis.summary[c] = NonInt

SeqFilter(xs, set) == SelectSeq(xs, LAMBDA c : c \in set)

\* ImprovedPIIService._hybrid_redact, step 1: the matches of every regex type
RECURSIVE RegexMatchesOf(_, _, _)
RegexMatchesOf(text, regex_types, custom_tags) ==
    IF regex_types = <<>> THEN <<>>
    ELSE find_pii_matches(text, <<Head(regex_types)>>, custom_tags)
         \o RegexMatchesOf(text, Tail(regex_types), custom_tags)

vars == <<svc, request, flags, pc, loc, result, calls, prev, registry, waiting>>

NoLocals ==
    [redact_types |-> <<>>, regex_matches |-> <<>>, regex_summary |-> <<>>,
     regex_redacted |-> <<>>, llm_redacted |-> <<>>, llm_matches |-> <<>>,
     llm_summary |-> <<>>, all_matches |-> <<>>, merged |-> FALSE,
     response |-> None, gap_validated |-> FALSE, potential_missed_pii |-> <<>>,
     enhanced_text |-> <<>>,
     gap_changed |-> FALSE, is_connected |-> "unknown", llm_success |-> "unknown",
     verify_is_connected |-> "unknown",
     \* analyze_text's llm_summary, None while analyze_pii has not answered there
     reanalysis |-> None]
NoResult == [success |-> FALSE, response |-> None, error |-> "pending"]

Init ==
    /\ svc = "PIIService"
    /\ request = [text |-> <<>>, redact_types |-> <<>>, custom_tags |-> <<>>]
    /\ flags = [auto_detect_all |-> TRUE, use_hybrid |-> TRUE, use_multi_pass |-> TRUE]
    /\ pc = "idle"
    /\ loc = NoLocals
    /\ result = NoResult
    /\ calls = <<>>
    /\ prev = None
    /\ registry = DEFAULT_TAGS
    /\ waiting = None

\* redact_text returns
Return(success, response, error, L) ==
    /\ pc' = "done"
    /\ result' = [success |-> success, response |-> response, error |-> error]
    /\ loc' = L
    /\ calls' = calls
\* an exception reaches redact_text's "except Exception"
Raise(exception, L) == Return(FALSE, None, <<"Internal error: ", exception>>, L)
\* redact_text suspends on a detector operation
Await(at, op, text, L) ==
    /\ pc' = at
    /\ loc' = L
    /\ calls' = Append(calls, [op |-> op, text |-> text])
    /\ result' = result

ProbeOp == [op |-> "check_connection", text |-> <<>>]

\* PIIService._hybrid_redact from "Combine summaries" to the return
HybridReturn(L, final_redacted, analysis) ==
    IF SummaryRaises(analysis) THEN Raise("TypeError", L)
    ELSE LET response == RedactResponse(
                 request.text, final_redacted,
                 CombineSummaries(L.regex_summary, analysis.summary, L.redact_types),
                 L.redact_types)
         IN  Return(TRUE, response, "",
                    [L EXCEPT !.llm_summary = analysis.summary, !.response = response])

NoAnalysis == [success |-> FALSE, isdict |-> TRUE, summary |-> <<>>]

\* ImprovedPIIService._hybrid_redact: the detector pass is over; what is left
\* of it runs without suspending (MergeApply, then GapValidate below).  The
\* log line after analyze_pii evaluates sum(llm_summary.values()).
ImprovedTail(L, analysis) ==
    IF SummaryRaises(analysis) THEN Raise("TypeError", L)
    ELSE /\ pc' = "merge"
         /\ loc' = [L EXCEPT !.llm_summary = analysis.summary]
         /\ calls' = calls
         /\ result' = result

\* ImprovedPIIService._hybrid_redact, steps 3 to 5 and the response
MergeApply ==
    /\ pc = "merge"
    /\ UNCHANGED <<svc, request, flags, prev, registry, waiting>>
    /\ LET text == request.text
           all_matches == _combine_and_deduplicate_matches(loc.regex_matches,
                                                           loc.llm_matches)
           redacted_text ==
               clean_overlapping_redactions(Substitute(text, SortDesc(all_matches)))
           response == RedactResponse(
               text, redacted_text,
               CombineSummaries(loc.regex_summary, loc.llm_summary, loc.redact_types),
               loc.redact_types)
           L == [loc EXCEPT !.all_matches = all_matches, !.merged = TRUE,
                            !.response = response]
       IN  IF flags.use_multi_pass
           THEN pc' = "gap_validate" /\ loc' = L /\ calls' = calls /\ result' = result
           ELSE Return(TRUE, response, "", L)

\* (a variant of the action below: a text changed by gap validation is handed
\* to the detector pass again)
GapValidate_again ==
    /\ pc = "gap_validate"
    /\ UNCHANGED <<svc, request, flags, prev, registry, waiting>>
    /\ LET potential_missed_pii == missed_pii(loc.response.original, loc.response.redacted)
           enhanced_text == apply_missed_pii(loc.response.redacted, potential_missed_pii)
           L == [loc EXCEPT !.gap_validated = TRUE, !.enhanced_text = enhanced_text,
                            !.potential_missed_pii = potential_missed_pii]
       IN  IF enhanced_text # loc.response.redacted
           THEN Await("probe", "check_connection", <<>>, [L EXCEPT !.gap_changed = TRUE])
           ELSE Return(TRUE, loc.response, "", L)
\* ImprovedPIIService.redact_text, "if use_multi_pass": gap validation, up to
\* the await of the second check_connection
GapValidate ==
    /\ pc = "gap_validate"
    /\ UNCHANGED <<svc, request, flags, prev, registry, waiting>>
    /\ LET \* enhance_redaction(response.original, response.redacted), its
           \* candidates kept
           potential_missed_pii == missed_pii(loc.response.original, loc.response.redacted)
           enhanced_text == apply_missed_pii(loc.response.redacted, potential_missed_pii)
           L == [loc EXCEPT !.gap_validated = TRUE, !.enhanced_text = enhanced_text,
                            !.potential_missed_pii = potential_missed_pii]
       IN  IF enhanced_text # loc.response.redacted
           THEN Await("verify_probe", "check_connection", <<>>,
                      [L EXCEPT !.gap_changed = TRUE])
           ELSE Return(TRUE, loc.response, "", L)

\* (a variant of the step below: custom tags are written into the class
\* attribute itself)
TagsCopied_in_place == registry' = Update(registry, request.custom_tags)
\* find_pii_matches, "tags = {**cls.DEFAULT_TAGS}" and "tags.update(custom_tags)":
\* the request's custom tags go into a new dict, the class attribute stays
TagsCopied == registry' = registry

\* redact_text called: the coroutine runs up to its first await
Begin ==
    LET req == request
        expanded == Range(req.redact_types) \cup get_all_supported_pii_types
        \* enhanced_request.redact_types: list(set(...)) fixes no order
        type_lists == IF flags.auto_detect_all THEN Orderings(expanded)
                      ELSE {req.redact_types}
        split(types) ==
            [regex_types |-> SeqFilter(types, DOMAIN PATTERNS),
             llm_types |-> SeqFilter(types, {c \in Range(types) : c \notin DOMAIN PATTERNS})]
        pii(types) ==
            LET sp == split(types)
                rr == RegexRedactor_redact_text(req.text, sp.regex_types, req.custom_tags)
                L == [NoLocals EXCEPT
                        !.redact_types = types,
                        !.regex_redacted = IF sp.regex_types # <<>> THEN rr.text ELSE req.text,
                        !.regex_summary = IF sp.regex_types # <<>> THEN rr.summary ELSE <<>>]
            IN  IF ~flags.use_hybrid
                THEN pc' = "probe" /\ loc' = [NoLocals EXCEPT !.redact_types = types]
                     /\ calls' = <<ProbeOp>> /\ result' = NoResult
                ELSE IF types # <<>>
                THEN pc' = "probe" /\ loc' = L /\ calls' = <<ProbeOp>> /\ result' = NoResult
                ELSE /\ pc' = "done" /\ loc' = L /\ calls' = <<>>
                     /\ result' = [success |-> TRUE, error |-> "",
                                   response |-> RedactResponse(req.text, L.regex_redacted,
                                                               <<>>, types)]
        improved(types) ==
            LET sp == split(types)
                ms == RegexMatchesOf(req.text, sp.regex_types, req.custom_tags)
            IN  /\ pc' = "probe"
                /\ loc' = [NoLocals EXCEPT
                             !.redact_types = types,
                             !.regex_matches = ms,
                             !.regex_summary = [c \in Range(sp.regex_types) |->
                                                   CountOfType(ms, c)]]
                /\ calls' = <<ProbeOp>>
                /\ result' = NoResult
    IN  /\ pc = "called"
        /\ UNCHANGED <<svc, request, flags, prev, waiting>>
        /\ TagsCopied
        /\ IF /\ flags.auto_detect_all
              /\ ~RedactRequest_accepts(req.text, expanded, req.custom_tags)
           THEN /\ pc' = "done" /\ loc' = NoLocals /\ calls' = <<>>
                /\ result' = [success |-> FALSE, response |-> None,
                              error |-> <<"Internal error: ", "ValidationError">>]
           ELSE \E types \in type_lists :
                    IF svc = "PIIService" THEN pii(types) ELSE improved(types)

\* OllamaClient.check_connection: is_connected for each outcome of the GET
ProbeOutcomes == {"200", "500", "ConnectError", "TimeoutException", "Exception"}
check_connection(outcome) == outcome = "200"

\* (a variant of the action below: an unreachable detector fails the request,
\* as it does in _llm_only_redact)
ProbeReturn_fatal(outcome) ==
    /\ pc = "probe"
    /\ UNCHANGED <<svc, request, flags, prev, registry, waiting>>
    /\ LET is_connected == check_connection(outcome)
           L == [loc EXCEPT !.is_connected = IF is_connected THEN "yes" ELSE "no"]
       IN  IF is_connected
           THEN Await("redact_pii", "redact_pii",
                      IF svc = "PIIService" /\ flags.use_hybrid
                      THEN loc.regex_redacted ELSE request.text, L)
           ELSE Return(FALSE, None, <<"Ollama not available: ", outcome>>, L)
\* the answer to check_connection arrives, in _hybrid_redact or _llm_only_redact
ProbeReturn(outcome) ==
    /\ pc = "probe"
    /\ UNCHANGED <<svc, request, flags, prev, registry, waiting>>
    /\ LET is_connected == check_connection(outcome)
           L == [loc EXCEPT !.is_connected = IF is_connected THEN "yes" ELSE "no"]
       IN  IF is_connected
           THEN Await("redact_pii", "redact_pii",
                      IF svc = "PIIService" /\ flags.use_hybrid
                      THEN loc.regex_redacted ELSE request.text, L)
           ELSE IF svc = "ImprovedPIIService" THEN ImprovedTail(L, NoAnalysis)
           ELSE IF flags.use_hybrid THEN HybridReturn(L, loc.regex_redacted, NoAnalysis)
           ELSE Return(FALSE, None, <<"Ollama not available: ", outcome>>, L)

\* the answer to redact_pii arrives
RedactReturn(reply) ==
    /\ pc = "redact_pii"
    /\ UNCHANGED <<svc, request, flags, prev, registry, waiting>>
    /\ LET r == redact_pii(reply)
           L == [loc EXCEPT !.llm_success = IF r.success THEN "yes" ELSE "no",
                            !.llm_redacted = r.text]
       IN  IF r.success
           THEN Await("analyze_pii", "analyze_pii", request.text,
                      IF svc = "ImprovedPIIService"
                      THEN [L EXCEPT !.llm_matches =
                               _extract_llm_matches(request.text, r.text, loc.redact_types,
                                                    request.custom_tags)]
                      ELSE L)
           ELSE IF svc = "ImprovedPIIService" THEN ImprovedTail(L, NoAnalysis)
           ELSE IF flags.use_hybrid THEN HybridReturn(L, loc.regex_redacted, NoAnalysis)
           ELSE Return(FALSE, None, <<"detector error", "">>, L)

\* the answer to analyze_pii arrives
AnalyzeReturn(reply) ==
    /\ pc = "analyze_pii"
    /\ UNCHANGED <<svc, request, flags, prev, registry, waiting>>
    /\ LET analysis == analyze_pii(reply, loc.redact_types)
       IN  IF svc = "ImprovedPIIService" THEN ImprovedTail(loc, analysis)
           ELSE IF flags.use_hybrid THEN HybridReturn(loc, loc.llm_redacted, analysis)
           ELSE \* _llm_only_redact: RedactResponse validates summary: Dict[str, int]
                IF SummaryRaises(analysis) THEN Raise("ValidationError", loc)
                ELSE LET response == RedactResponse(request.text, loc.llm_redacted,
                                                    analysis.summary, loc.redact_types)
                     IN  Return(TRUE, response, "",
                                [loc EXCEPT !.llm_summary = analysis.summary,
                                            !.response = response])

\* ImprovedPIIService.redact_text: the answer to the second check_connection
\* arrives (the text was changed by gap validation)
VerifyProbe ==
    \E outcome \in ProbeOutcomes :
        /\ pc = "verify_probe"
        /\ UNCHANGED <<svc, request, flags, prev, registry, waiting>>
        /\ LET is_connected == check_connection(outcome)
               L == [loc EXCEPT !.verify_is_connected = IF is_connected THEN "yes" ELSE "no"]
           IN  IF is_connected
               THEN \* RedactRequest(text=enhanced_text, ...) validates; then
                    \* self.ollama_client.generate_completion: OllamaClient has no such
                    \* method
                    IF RedactRequest_accepts(loc.enhanced_text, Range(loc.redact_types),
                                             request.custom_tags)
                    THEN Raise("AttributeError", L)
                    ELSE Raise("ValidationError", L)
               ELSE Await("reanalyze_probe", "check_connection", <<>>,
                          [L EXCEPT !.response.redacted = loc.enhanced_text])

\* ImprovedPIIService.analyze_text, regex-only fallback
RegexOnlySummary(text, redact_types) ==
    [c \in Range(redact_types) |->
        IF is_type_supported(c) THEN Len(find_pii_matches(text, <<c>>, <<>>)) ELSE 0]

\* ImprovedPIIService.analyze_text with the detector's analysis: the summary,
\* or the empty dict when the analysis failed or an exception was caught
RECURSIVE AddMissed(_, _)
AddMissed(summary, items) ==
    IF items = <<>> THEN summary
    ELSE IF Head(items).confidence >= MinConfidence /\ Head(items).type \in DOMAIN summary
    THEN AddMissed([summary EXCEPT ![Head(items).type] = @ + 1], Tail(items))
    ELSE AddMissed(summary, Tail(items))
AnalyzeTextSummary(text, redact_types, analysis) ==
    LET llm_summary == analysis.summary
        regex_summary == [c \in {c \in Range(redact_types) : is_type_supported(c)} |->
                             Len(find_pii_matches(text, <<c>>, <<>>))]
        potential_missed == validate_text(text, <<>>)
        raises ==
            \/ ~analysis.isdict
            \/ \E c \in DOMAIN regex_summary :
                   c \in DOMAIN llm_summary /\ llm_summary[c] = NonInt
            \/ \E k \in 1..Len(potential_missed) :
                   /\ potential_missed[k].confidence >= MinConfidence
                   /\ potential_missed[k].type \in DOMAIN llm_summary
                   /\ llm_summary[potential_missed[k].type] = NonInt
        combined == [c \in DOMAIN llm_summary \cup DOMAIN regex_summary |->
                        IF c \in DOMAIN llm_summary /\ c \in DOMAIN regex_summary
                        THEN Max(llm_summary[c], regex_summary[c])
                        ELSE IF c \in DOMAIN llm_summary THEN llm_summary[c]
                        ELSE regex_summary[c]]
    IN  IF ~analysis.success \/ raises THEN <<>>
        ELSE AddMissed(combined, potential_missed)

\* "if new_summary: response.summary = new_summary"
WithSummary(response, new_summary) ==
    IF DOMAIN new_summary # {} THEN [response EXCEPT !.summary = new_summary] ELSE response

\* analyze_text: the answer to its check_connection arrives
ReanalyzeProbe ==
    \E outcome \in ProbeOutcomes :
        /\ pc = "reanalyze_probe"
        /\ UNCHANGED <<svc, request, flags, prev, registry, waiting>>
        /\ IF check_connection(outcome)
           THEN Await("reanalyze", "analyze_pii", loc.response.original, loc)
           ELSE LET response == WithSummary(loc.response,
                                            RegexOnlySummary(loc.response.original,
                                                             loc.redact_types))
                IN  Return(TRUE, response, "", [loc EXCEPT !.response = response])

\* analyze_text: the answer to analyze_pii arrives
ReanalyzeReturn(reply) ==
    /\ pc = "reanalyze"
    /\ UNCHANGED <<svc, request, flags, prev, registry, waiting>>
    /\ LET analysis == analyze_pii(reply, loc.redact_types)
           response == WithSummary(loc.response,
                                   AnalyzeTextSummary(loc.response.original,
                                                      loc.redact_types, analysis))
       IN  Return(TRUE, response, "",
                  [loc EXCEPT !.response = response, !.reanalysis = analysis])

(***************************************************************************)
(* Inputs and the detector's replies                                       *)
(***************************************************************************)
\* the texts submitted; gap is "mail: ab@cd.efghijklmnop\nABC123" and note is
\* "[1]\nok"
Text ==
    [id    |-> <<"A","1","2","3","4","5","6","7">>,
     mail  |-> <<"m","a","i","l"," ","a","@","b",".","c","o"," ","n","o","w">>,
     zip   |-> <<"t","o"," ","a","@","b",".","c","o"," ","1","2","3","4","5">>,
     two   |-> <<"a","@","b",".","c","o"," ","c","@","d",".","c","o">>,
     clue  |-> <<"n","a","m","e",":"," ","B","o","b">>,
     plain |-> <<"h","e","l","l","o">>,
     note  |-> <<"[","1","]","\n","o","k">>,
     gap   |-> <<"m","a","i","l",":"," ","a","b","@","c","d",".","e","f","g","h","i","j",
                 "k","l","m","n","o","p","\n","A","B","C","1","2","3">>]
Texts == {Text[k] : k \in DOMAIN Text}

TypeLists == {<<>>, <<c_email>>, <<c_email, c_voiceprint>>, <<c_email, c_biometric>>,
              <<c_drivers_license, c_passport>>}
\* custom_tags: none, or (for the texts with an address in mid-text) a tag
\* override for email
TagChoices(t, types) ==
    {<<>>} \cup (IF c_email \in Range(types) /\ t \in {Text.mail, Text.two}
                 THEN {c_email :> <<"[","E","]">>} ELSE {})
Requests ==
    UNION {{[text |-> t, redact_types |-> types, custom_tags |-> tags] :
               tags \in TagChoices(t, types)} : t \in Texts, types \in TypeLists}
FlagChoices(s) ==
    {[auto_detect_all |-> a, use_hybrid |-> h, use_multi_pass |-> m] :
        a \in BOOLEAN,
        h \in IF s = "PIIService" THEN BOOLEAN ELSE {TRUE},
        m \in IF s = "PIIService" THEN {TRUE} ELSE BOOLEAN}

\* the whitespace-separated tokens of a text, as <<start, end>> ranges
TokenRanges(t) ==
    {r \in (0..Len(t)) \X (0..Len(t)) :
        /\ r[1] < r[2]
        /\ \A k \in (r[1] + 1)..r[2] : t[k] \notin Space
        /\ (r[1] = 0 \/ t[r[1]] \in Space)
        /\ (r[2] = Len(t) \/ t[r[2] + 1] \in Space)}

\* how many token start offsets the detector's rewrites are drawn from
MaxRewrites == 3
\* the detector's count for a category ranges over 0..MaxCount
MaxCount == 1

FirstRanges(t) ==
    {r \in TokenRanges(t) : Cardinality({q \in TokenRanges(t) : q[1] < r[1]}) < MaxRewrites}

\* the texts the detector answers a redaction prompt with: the input back,
\* nothing, the input inside a markdown fence, or the input with one token
\* replaced by the tag of a requested category
RedactTexts(text, redact_types, custom_tags) ==
    {text, <<>>, Fence \o <<"\n">> \o text \o <<"\n">> \o Fence}
    \cup {SliceTo(text, r[1]) \o TagOf(Update(DEFAULT_TAGS, custom_tags), c)
          \o SliceFrom(text, r[2]) : r \in FirstRanges(text), c \in Range(redact_types)}
RedactReplies(text, redact_types, custom_tags) ==
    {[ok |-> FALSE, text |-> <<>>]}
    \cup {[ok |-> TRUE, text |-> t] : t \in RedactTexts(text, redact_types, custom_tags)}

AReply(ok, kind, str, items, map) ==
    [ok |-> ok, kind |-> kind, s |-> str, items |-> items, map |-> map]
RECURSIVE Concat(_)
Concat(xs) == IF xs = <<>> THEN <<>> ELSE Head(xs) \o Concat(Tail(xs))
\* the count objects the detector answers with: 0 for every requested
\* category, or one category with a count up to MaxCount
CountMaps(redact_types) ==
    LET zero == [c \in Range(redact_types) |-> 0]
    IN  {zero} \cup {[zero EXCEPT ![c] = k] : c \in Range(redact_types), k \in 1..MaxCount}
\* the replies to an analysis prompt: no reply, a malformed payload of each
\* kind, and objects with counts for the requested categories (complete,
\* empty, with a key nobody asked for, with a count that is not a number)
AnalysisReplies(redact_types) ==
    {AReply(FALSE, "none", <<>>, {}, <<>>),
     AReply(TRUE, "invalid", <<>>, {}, <<>>),
     AReply(TRUE, "scalar", <<>>, {}, <<>>),
     AReply(TRUE, "string", <<"n","o","n","e">>, {}, <<>>),
     AReply(TRUE, "string", Concat(redact_types), {}, <<>>),
     AReply(TRUE, "array", <<>>, {}, <<>>),
     AReply(TRUE, "array", <<>>, Range(redact_types), <<>>),
     AReply(TRUE, "object", <<>>, {}, <<>>),
     AReply(TRUE, "object", <<>>, {}, v_zip_code :> 1)}
    \cup {AReply(TRUE, "object", <<>>, {}, m) : m \in CountMaps(redact_types)}
    \cup {AReply(TRUE, "object", <<>>, {}, redact_types[1] :> NonInt) :
             k \in {k \in {1} : redact_types # <<>>}}

(***************************************************************************)
(* The specification: one request                                          *)
(***************************************************************************)
\* a caller's call of redact_text, before the coroutine runs
Call(s, req, f, pv) ==
    /\ svc' = s
    /\ request' = req
    /\ flags' = f
    /\ prev' = pv
    /\ pc' = "called"
    /\ loc' = NoLocals
    /\ result' = NoResult
    /\ calls' = <<>>
    /\ UNCHANGED <<registry, waiting>>

\* a caller invokes redact_text
Start ==
    /\ pc = "idle"
    /\ \E s \in {"PIIService", "ImprovedPIIService"} :
       \E req \in Requests :
       \E f \in FlagChoices(s) :
           /\ DOMAIN req.custom_tags \subseteq Range(req.redact_types)
           /\ Call(s, req, f, None)

Probe == \E outcome \in ProbeOutcomes : ProbeReturn(outcome)
\* the answer to a redaction prompt: one built from the text in the prompt,
\* or one that is not, the request's text as it was before redaction
Redact ==
    /\ pc = "redact_pii"
    /\ \E reply \in RedactReplies(calls[Len(calls)].text, loc.redact_types,
                                  request.custom_tags)
                     \cup {[ok |-> TRUE, text |-> request.text]} :
        RedactReturn(reply)
Analyze ==
    /\ pc = "analyze_pii"
    /\ \E reply \in AnalysisReplies(loc.redact_types) : AnalyzeReturn(reply)
Reanalyze ==
    /\ pc = "reanalyze"
    /\ \E reply \in AnalysisReplies(loc.redact_types) : ReanalyzeReturn(reply)

Next ==
    \/ Start
    \/ Begin
    \/ Probe
    \/ Redact
    \/ Analyze
    \/ MergeApply
    \/ GapValidate
    \/ VerifyProbe
    \/ ReanalyzeProbe
    \/ Reanalyze
Spec == Init /\ [][Next]_vars

(***************************************************************************)
(* Properties of one request                                               *)
(***************************************************************************)
\* the overlap of two half-open ranges [start, end)
RangesMeet(a, b) == ~(b.end <= a.start \/ b.start >= a.end)
\* the detector took no part in the text of the response
DetectorDown == loc.is_connected = "no" \/ loc.llm_success = "no"
\* the requested categories that only the detector can find
DetectorOnly == {c \in Range(loc.redact_types) : ~is_type_supported(c)}

\* C1: once _combine_and_deduplicate_matches has merged the deterministic and
\* the detector-derived spans, no two spans of the match set overlap.
C1_MergedSpansDisjoint ==
    loc.merged =>
        \A i, j \in 1..Len(loc.all_matches) :
            i # j => ~RangesMeet(loc.all_matches[i], loc.all_matches[j])

\* C2: when the detector adds nothing and the patterns of two requested
\* categories match one and the same substring (and nothing else matches),
\* the redacted text is the input with that substring replaced by the tag of
\* one of the two categories: one tag, no fragment of a second one.
C2_OneTagPerSubstring ==
    LET improved == /\ svc = "ImprovedPIIService" /\ loc.merged /\ ~loc.gap_changed
                    /\ loc.llm_matches = <<>>
        hybrid == /\ svc = "PIIService" /\ flags.use_hybrid /\ pc = "done"
                  /\ result.success /\ loc.llm_success # "yes"
    IN  (improved \/ hybrid) =>
        LET text == request.text
            redacted == IF improved THEN loc.response.redacted
                        ELSE result.response.redacted
            ms == find_pii_matches(text, loc.redact_types, request.custom_tags)
        IN  (/\ Len(ms) = 2
             /\ ms[1].pii_type # ms[2].pii_type
             /\ ms[1].start = ms[2].start /\ ms[1].end = ms[2].end) =>
                redacted \in {SliceTo(text, ms[k].start) \o ms[k].replacement
                              \o SliceFrom(text, ms[k].end) : k \in {1, 2}}

\* C3: the merge keeps every deterministic span, in front; each span after
\* them is a detector span that overlaps no span accepted before it; a
\* detector span that overlaps a deterministic span is not in the result.
C3_MergePrecedence ==
    loc.merged =>
        LET primary == loc.regex_matches
            secondary == loc.llm_matches
            merged == loc.all_matches
        IN  /\ Len(merged) >= Len(primary)
            /\ SubSeq(merged, 1, Len(primary)) = primary
            /\ \A k \in (Len(primary) + 1)..Len(merged) :
                   /\ \E s \in 1..Len(secondary) : secondary[s] = merged[k]
                   /\ \A i \in 1..(k - 1) : ~RangesMeet(merged[i], merged[k])
            /\ \A s \in 1..Len(secondary) :
                   (\E p \in 1..Len(primary) : RangesMeet(primary[p], secondary[s]))
                       => \A k \in (Len(primary) + 1)..Len(merged) : merged[k] # secondary[s]
\* a detector span overlaps a deterministic span and was dropped, the
\* deterministic span kept
C3_Witness ==
    /\ loc.merged
    /\ \E s \in 1..Len(loc.llm_matches) : \E p \in 1..Len(loc.regex_matches) :
           RangesMeet(loc.regex_matches[p], loc.llm_matches[s])
    /\ loc.all_matches = loc.regex_matches

\* C4: with the detector unreachable, or its redact call failed, the hybrid
\* pipeline of either service still returns success; the redacted text is
\* what the deterministic stages produce and every detector-only category
\* counts 0.
C4_DegradesToDeterministic ==
    /\ (svc = "PIIService" /\ flags.use_hybrid /\ pc = "done" /\ DetectorDown) =>
           /\ result.success
           /\ result.response.redacted = loc.regex_redacted
           /\ \A c \in DetectorOnly : result.response.summary[c] = 0
    /\ (svc = "ImprovedPIIService" /\ pc = "done" /\ DetectorDown) => loc.merged
    /\ (/\ svc = "ImprovedPIIService" /\ DetectorDown
        /\ \/ pc = "gap_validate"
           \/ pc = "done" /\ ~flags.use_multi_pass) =>
           /\ loc.response.redacted =
                  clean_overlapping_redactions(
                      Substitute(request.text, SortDesc(loc.regex_matches)))
           /\ \A c \in DetectorOnly : loc.response.summary[c] = 0
           /\ pc = "done" => result.success /\ result.response = loc.response
\* the probe failed, a detector-only category was requested next to email,
\* and the response carries the deterministic redaction of an address
C4_Witness ==
    /\ svc = "PIIService" /\ flags.use_hybrid /\ pc = "done"
    /\ loc.is_connected = "no"
    /\ c_voiceprint \in DetectorOnly
    /\ result.success
    /\ result.response.summary[c_email] = 1
    /\ result.response.redacted # request.text

\* C6: whatever the detector answers to the analysis prompt after a
\* successful redact call, a hybrid request returns success (the verify pass
\* left aside).
C6_MalformedPayloadAbsorbed ==
    (/\ pc = "done" /\ flags.use_hybrid
     /\ loc.llm_success = "yes" /\ loc.verify_is_connected # "yes") => result.success

\* C7: a request accepted by RedactRequest and processed with
\* auto_detect_all returns success, and the categories processed contain the
\* requested and the supported ones.
C7_AutoDetectSucceeds ==
    (/\ pc = "done" /\ flags.auto_detect_all
     /\ RedactRequest_accepts(request.text, Range(request.redact_types),
                              request.custom_tags)) =>
        /\ result.success
        /\ (Range(request.redact_types) \cup get_all_supported_pii_types)
               \subseteq Range(result.response.redact_types_used)

\* C8: when gap validation changed the text and the second probe finds the
\* detector reachable, the request returns success with a redacted text.
C8_VerifyPassSucceeds ==
    (pc = "done" /\ loc.gap_changed /\ loc.verify_is_connected = "yes") =>
        /\ result.success
        /\ result.response.redacted # <<>>

\* C10: gap validation changes nothing outside the candidates of confidence
\* 0.8 or more: without such a candidate the text stays as it was, and with
\* them the text before the first and after the last of them is kept.
C10_ConfidenceGate ==
    (/\ loc.gap_validated
     /\ pc = "verify_probe" \/ (pc = "done" /\ ~loc.gap_changed)) =>
        LET red == loc.response.redacted
            out == loc.enhanced_text
            cands == loc.potential_missed_pii
            High == {k \in 1..Len(cands) : cands[k].confidence >= 8}
            lo == CHOOSE a \in {cands[k].start : k \in High} :
                      \A k \in High : a <= cands[k].start
            hi == CHOOSE b \in {cands[k].end : k \in High} :
                      \A k \in High : b >= cands[k].end
        IN  IF High = {} THEN out = red
            ELSE /\ Len(out) >= lo + (Len(red) - hi)
                 /\ SliceTo(out, lo) = SliceTo(red, lo)
                 /\ SliceFrom(out, Len(out) - (Len(red) - hi)) = SliceFrom(red, hi)


(***************************************************************************)
(* The specification of two runs: a caller whose request succeeded submits *)
(* it again, or submits the redacted text for the same categories.  The    *)
(* detector is unreachable, or reachable and finds nothing.                *)
(***************************************************************************)
\* a caller invokes the hybrid pipeline with the categories as given
StartHybrid ==
    /\ pc = "idle"
    /\ \E s \in {"PIIService", "ImprovedPIIService"} :
       \E req \in Requests :
       \E f \in FlagChoices(s) :
           /\ ~f.auto_detect_all /\ f.use_hybrid
           /\ DOMAIN req.custom_tags \subseteq Range(req.redact_types)
           /\ Call(s, req, f, None)

\* the detector finds nothing: it answers a redaction prompt with the text it
\* was given, and an analysis prompt with 0 for every category
NothingFound == AReply(TRUE, "object", <<>>, {}, [c \in Range(loc.redact_types) |-> 0])
RedactEcho ==
    /\ pc = "redact_pii"
    /\ RedactReturn([ok |-> TRUE, text |-> calls[Len(calls)].text])
AnalyzeNothing == pc = "analyze_pii" /\ AnalyzeReturn(NothingFound)
ReanalyzeNothing == pc = "reanalyze" /\ ReanalyzeReturn(NothingFound)

\* what is kept of a finished run
Outcome(kind) ==
    [kind |-> kind, response |-> result.response, is_connected |-> loc.is_connected]
\* the same request is submitted again
Again ==
    /\ pc = "done" /\ prev = None /\ result.success
    /\ Call(svc, request, flags, Outcome("same"))
\* the redacted text is submitted, for the same categories
Rerun ==
    /\ pc = "done" /\ prev = None /\ result.success
    /\ result.response.redacted # <<>>
    /\ Call(svc, [request EXCEPT !.text = result.response.redacted], flags,
            Outcome("output"))

NextTwoRuns ==
    \/ StartHybrid
    \/ Begin
    \/ Probe
    \/ RedactEcho
    \/ AnalyzeNothing
    \/ MergeApply
    \/ GapValidate
    \/ VerifyProbe
    \/ ReanalyzeProbe
    \/ ReanalyzeNothing
    \/ Again
    \/ Rerun
SpecTwoRuns == Init /\ [][NextTwoRuns]_vars

\* C5: a response produced with the detector unreachable differs from the
\* response the same request gets when the detector is reachable and finds
\* nothing.
C5_DegradedRunDistinguishable ==
    (/\ pc = "done" /\ prev # None /\ prev.kind = "same"
     /\ prev.is_connected = "no"
     /\ loc.is_connected = "yes" /\ loc.llm_success = "yes"
     /\ result.success) => result.response # prev.response

\* C9: the pipeline run on the redacted text of an earlier run, for the same
\* categories, returns success and leaves that text as it is.
C9_Idempotent ==
    (pc = "done" /\ prev # None /\ prev.kind = "output") =>
        /\ result.success
        /\ result.response.redacted = prev.response.redacted

(***************************************************************************)
(* The /redact endpoint (main.py) and errors                               *)
(***************************************************************************)
\* main.py redact_pii, after redact_text returned: the HTTP answer.  A failure
\* raises HTTPException(status_code=500, detail=error), which the handler
\* re-raises as it is.
redact_endpoint(res) ==
    IF res.success THEN [status_code |-> 200, detail |-> <<"", "">>]
    ELSE [status_code |-> 500, detail |-> res.error]

\* C11: when an exception was caught by redact_text, the call returns a
\* failure whose message, and the HTTP detail built from it, hold no text
\* taken from the exception (the error's second component is that text).
C11_GenericError ==
    (pc = "done" /\ ~result.success /\ result.error[1] = "Internal error: ") =>
        /\ result.error[2] = ""
        /\ redact_endpoint(result).detail[2] = ""

(***************************************************************************)
(* The specification of validated requests: the caller builds the request  *)
(* with RedactRequest(...), whose validators run in the constructor, and    *)
(* passes it to redact_text.                                               *)
(***************************************************************************)
\* the fields a caller hands to RedactRequest(...): those of Requests, and an
\* address text with a tag override for a category that is not requested
Payloads ==
    Requests
    \cup {[text |-> Text.mail, redact_types |-> types,
           custom_tags |-> c_phone :> <<"[","P","]">>] : types \in {<<>>, <<c_email>>}}

\* RedactRequest(...) is evaluated: a ValidationError leaves the caller without
\* a request (request then holds the fields that were refused), otherwise
\* redact_text is called with the request
Submit ==
    /\ pc = "idle"
    /\ \E payload \in Payloads :
           IF RedactRequest_accepts(payload.text, Range(payload.redact_types),
                                    payload.custom_tags)
           THEN \E s \in {"PIIService", "ImprovedPIIService"} :
                \E f \in FlagChoices(s) : Call(s, payload, f, None)
           ELSE /\ request' = payload
                /\ pc' = "rejected"
                /\ UNCHANGED <<svc, flags, loc, result, calls, prev, registry, waiting>>

NextValidated ==
    \/ Submit
    \/ Begin
    \/ Probe
    \/ Redact
    \/ Analyze
    \/ MergeApply
    \/ GapValidate
    \/ VerifyProbe
    \/ ReanalyzeProbe
    \/ Reanalyze
SpecValidated == Init /\ [][NextValidated]_vars

\* C12: a request that names a category outside the taxonomy, or carries a
\* tag override for a category it does not request, is refused by the
\* constructor: no stage of the pipeline runs and no detector operation is
\* invoked for it.
C12_InvalidRequestRejected ==
    (/\ pc # "idle"
     /\ \/ \E c \in Range(request.redact_types) :
               c \notin valid_types \cup get_all_supported_pii_types
        \/ \E c \in DOMAIN request.custom_tags : c \notin Range(request.redact_types)) =>
        /\ pc = "rejected"
        /\ calls = <<>>
        /\ loc = NoLocals
        /\ result = NoResult
\* a request naming a category of no table was refused
C12_Witness ==
    /\ pc = "rejected"
    /\ c_voiceprint \in Range(request.redact_types)
    /\ calls = <<>>

(***************************************************************************)
(* Properties of the counts and of the order of the stages                 *)
(***************************************************************************)
\* C13: in the result of a successful hybrid request the count of every
\* requested category is the maximum of the deterministic count and of the
\* count the detector reported (in the detector pass or, after gap
\* validation, in the re-analysis), also when gap validation changed the text.
C13_CountsAreMax ==
    LET deterministic(c) ==
            IF is_type_supported(c)
            THEN Len(find_pii_matches(request.text, <<c>>, request.custom_tags))
            ELSE 0
        reported(c) ==
            {IF c \in DOMAIN loc.llm_summary THEN loc.llm_summary[c] ELSE 0}
            \cup (IF loc.reanalysis # None /\ loc.reanalysis.success
                     /\ loc.reanalysis.isdict /\ c \in DOMAIN loc.reanalysis.summary
                  THEN {loc.reanalysis.summary[c]} ELSE {})
    IN  (pc = "done" /\ result.success /\ flags.use_hybrid) =>
            \A c \in Range(loc.redact_types) :
                /\ c \in DOMAIN result.response.summary
                /\ \E r \in reported(c) :
                       result.response.summary[c] = Max(deterministic(c), r)

\* C14: a request passes the stages in one order (split and deterministic
\* pass, detector pass, merge and apply, gap validation, detector
\* verification, done), skipping some but entering none twice; the detector's
\* redaction is invoked at most once; gap validation follows the merge and the
\* verification follows gap validation.
C14_StagesInOrder ==
    [][LET rank(p) ==
               CASE p = "idle" -> 0
                 [] p = "called" -> 1
                 [] p = "probe" -> 2
                 [] p = "redact_pii" -> 3
                 [] p = "analyze_pii" -> 4
                 [] p = "merge" -> 5
                 [] p = "gap_validate" -> 6
                 [] p = "verify_probe" -> 7
                 [] p = "reanalyze_probe" -> 8
                 [] p = "reanalyze" -> 9
                 [] p \in {"done", "rejected"} -> 10
       IN  /\ rank(pc') > rank(pc)
           /\ Cardinality({k \in 1..Len(calls') : calls'[k].op = "redact_pii"}) <= 1
           /\ pc' = "gap_validate" => loc'.merged
           /\ pc' \in {"verify_probe", "reanalyze_probe", "reanalyze"} =>
                  loc'.merged /\ loc'.gap_validated]_vars
\* a request that went through every stage: the detector pass, the merge, gap
\* validation with a changed text, the verification probe and the re-analysis
C14_Witness ==
    /\ pc = "done"
    /\ loc.merged /\ loc.gap_changed
    /\ loc.reanalysis # None
    /\ \E k \in 1..Len(calls) : calls[k].op = "redact_pii"

(***************************************************************************)
(* The specification of two requests in one process: the endpoint is a     *)
(* coroutine, so a second request may start, and either may run on, each   *)
(* time the running one is suspended at an await on the detector.  The     *)
(* detector is unreachable, or reachable and finds nothing.                *)
(***************************************************************************)
\* the coroutine of the running request: its arguments and local variables
Coroutine ==
    [svc |-> svc, request |-> request, flags |-> flags, pc |-> pc, loc |-> loc,
     result |-> result, calls |-> calls]
\* a request arrives: the first one, or a second one while the first is over
\* or suspended (at an await, or before its first step; "merge" and
\* "gap_validate" are reached and left without an await).  The requests
\* submitted side by side ask for one category, with and without a tag
\* override.
Arrive ==
    /\ \/ pc = "idle"
       \/ waiting = None /\ pc \notin {"merge", "gap_validate"}
    /\ waiting' = IF pc = "idle" THEN None ELSE Coroutine
    /\ \E s \in {"PIIService", "ImprovedPIIService"} :
       \E req \in {r \in Requests : /\ r.redact_types = <<c_email>>
                                    /\ r.text \in {Text.mail, Text.zip}} :
       \E f \in FlagChoices(s) :
           /\ ~f.auto_detect_all /\ f.use_hybrid
           /\ svc' = s /\ request' = req /\ flags' = f
    /\ pc' = "called" /\ loc' = NoLocals /\ result' = NoResult /\ calls' = <<>>
    /\ UNCHANGED <<prev, registry>>
\* the event loop runs the other request on while this one is suspended or over
Switch ==
    /\ waiting # None /\ waiting.pc # "done"
    /\ pc \notin {"idle", "merge", "gap_validate"}
    /\ waiting' = Coroutine
    /\ svc' = waiting.svc /\ request' = waiting.request /\ flags' = waiting.flags
    /\ pc' = waiting.pc /\ loc' = waiting.loc /\ result' = waiting.result
    /\ calls' = waiting.calls
    /\ UNCHANGED <<prev, registry>>

NextConcurrent ==
    \/ Arrive
    \/ Switch
    \/ Begin
    \/ Probe
    \/ RedactEcho
    \/ AnalyzeNothing
    \/ MergeApply
    \/ GapValidate
    \/ VerifyProbe
    \/ ReanalyzeProbe
    \/ ReanalyzeNothing
SpecConcurrent == Init /\ [][NextConcurrent]_vars

\* C15: however two requests interleave, custom tags included, the shared
\* tag table is never modified, and a request that found the detector
\* unreachable returns what the deterministic stages make of its own text,
\* categories and tags: the result it gets when it runs alone.
C15_RequestsIndependent ==
    /\ registry = DEFAULT_TAGS
    /\ \A c \in {Coroutine} \cup (IF waiting = None THEN {} ELSE {waiting}) :
           (/\ c.pc = "done" /\ c.loc.is_connected = "no"
            /\ (c.svc = "PIIService" \/ ~c.flags.use_multi_pass)) =>
               LET text == c.request.text
                   types == SeqFilter(c.request.redact_types, DOMAIN PATTERNS)
                   tags == Update(DEFAULT_TAGS, c.request.custom_tags)
                   ms == Concat([k \in 1..Len(types) |->
                                    SortAsc(MatchesOfTypes(text, <<types[k]>>, tags))])
               IN  /\ c.result.success
                   /\ c.result.response.redacted =
                          IF c.svc = "PIIService"
                          THEN Substitute(text, Reverse(SortAsc(ms)))
                          ELSE clean_overlapping_redactions(
                                   Substitute(text, SortDesc(ms)))
                   /\ \A t \in Range(types) :
                          c.result.response.summary[t] = CountOfType(ms, t)
\* two requests for the same text are over, one with a tag override for email
\* and one without, the one without having started after the other
C15_Witness ==
    /\ waiting # None /\ waiting.pc = "done" /\ pc = "done"
    /\ waiting.request.text = request.text
    /\ waiting.request.custom_tags # <<>> /\ request.custom_tags = <<>>
    /\ waiting.loc.is_connected = "no" /\ loc.is_connected = "no"
    /\ waiting.result.response.redacted # result.response.redacted

\* C16: every span substituted into the original text when the merged match
\* set is applied, deterministic or built from the detector's output, lies
\* inside the original text: 0 <= start < end <= len(text).
C16_SpansInsideText ==
    loc.merged =>
        \A k \in 1..Len(loc.all_matches) :
            LET m == loc.all_matches[k]
            IN  0 <= m.start /\ m.start < m.end /\ m.end <= Len(request.text)

(***************************************************************************)
(* The specification of the deterministic pass alone: RegexRedactor's      *)
(* redact_text applied to the scenario texts and to credit score           *)
(* candidates.                                                             *)
(***************************************************************************)
\* the scenario texts:
\* A is "Contact John Smith at john.smith@example.com or 555-123-4567."
\* B is "SSN: 123-45-6789"
Scenario ==
    [A |-> <<"C","o","n","t","a","c","t"," ","J","o","h","n"," ","S",
             "m","i","t","h"," ","a","t"," ","j","o","h","n",".","s",
             "m","i","t","h","@","e","x","a","m","p","l","e",".","c",
             "o","m"," ","o","r"," ","5","5","5","-","1","2","3","-",
             "4","5","6","7",".">>,
     B |-> <<"S","S","N",":"," ","1","2","3","-","4","5","-","6","7","8","9">>]
\* the scores submitted lie within ScoreMargin of the two ends of [300, 850]
ScoreMargin == 10

\* redact_text's arguments: the scenarios, whole and without their first
\* word, the scores, bare and behind a label, and texts the name pattern
\* matches as a whole: "Zed Bo", "Zed Prince", "Zed Inc", "John A- Zed",
\* "Zed A- Bo" and "John A. Bo Smith Jr"
InitScan ==
    /\ request \in
           {[text |-> t, redact_types |-> types, custom_tags |-> <<>>] :
               t \in {Scenario.A, SliceFrom(Scenario.A, 8)},
               types \in {<<c_name, c_email, c_phone>>, <<c_name>>}}
           \cup {[text |-> t, redact_types |-> <<c_ssn>>, custom_tags |-> <<>>] :
                    t \in {Scenario.B, SliceFrom(Scenario.B, 5)}}
           \cup {[text |-> t, redact_types |-> <<c_name>>, custom_tags |-> <<>>] :
                    t \in {<<"Z","e","d"," ","B","o">>,
                           <<"Z","e","d"," ","P","r","i","n","c","e">>,
                           <<"Z","e","d"," ","I","n","c">>,
                           <<"J","o","h","n"," ","A","-"," ","Z","e","d">>,
                           <<"Z","e","d"," ","A","-"," ","B","o">>,
                           <<"J","o","h","n"," ","A","."," ","B","o"," ",
                             "S","m","i","t","h"," ","J","r">>}}
           \cup {[text |-> label \o <<digits[(n \div 100) + 1], digits[((n \div 10) % 10) + 1],
                                      digits[(n % 10) + 1]>>,
                   redact_types |-> <<c_credit_score>>, custom_tags |-> <<>>] :
                    label \in {<<>>, <<"S","c","o","r","e",":"," ">>, <<"F","I","C","O"," ">>},
                    n \in ((300 - ScoreMargin)..(300 + ScoreMargin))
                          \cup ((850 - ScoreMargin)..(850 + ScoreMargin))
                          \cup {720, 950},
                    digits \in {<<"0","1","2","3","4","5","6","7","8","9">>}}
    /\ svc = "PIIService"
    /\ flags = [auto_detect_all |-> FALSE, use_hybrid |-> TRUE, use_multi_pass |-> TRUE]
    /\ pc = "idle"
    /\ loc = NoLocals
    /\ result = NoResult
    /\ calls = <<>>
    /\ prev = None
    /\ registry = DEFAULT_TAGS
    /\ waiting = None
\* RegexRedactor.redact_text(text, pii_types, custom_tags)
Scan ==
    /\ pc = "idle"
    /\ LET rr == RegexRedactor_redact_text(request.text, request.redact_types,
                                           request.custom_tags)
       IN  /\ loc' = [NoLocals EXCEPT
                        !.redact_types = request.redact_types,
                        !.regex_matches = find_pii_matches(request.text,
                                                           request.redact_types,
                                                           request.custom_tags),
                        !.regex_redacted = rr.text,
                        !.regex_summary = rr.summary]
    /\ pc' = "scanned"
    /\ UNCHANGED <<svc, request, flags, result, calls, prev, registry, waiting>>
SpecScan == InitScan /\ [][Scan]_vars

\* C17: scenario A, the categories name, email and phone, gives
\* "Contact [REDACTED_NAME] at [REDACTED_EMAIL] or [REDACTED_PHONE]." with a
\* count of 1 each: the ordinary word before the name stays out of the span.
C17_ScenarioA ==
    (/\ pc = "scanned" /\ request.text = Scenario.A
     /\ request.redact_types = <<c_name, c_email, c_phone>>) =>
        /\ loc.regex_redacted =
               SliceTo(Scenario.A, 8) \o TagFor(c_name) \o <<" ","a","t"," ">>
               \o TagFor(c_email) \o <<" ","o","r"," ">> \o TagFor(c_phone) \o <<".">>
        /\ loc.regex_summary = (c_name :> 1 @@ c_email :> 1 @@ c_phone :> 1)

\* C18: scenario B, the category ssn, gives exactly one span, over
\* "123-45-6789" and not over the label before it, and a count of 1.
C18_ScenarioB ==
    (pc = "scanned" /\ request.text = Scenario.B /\ request.redact_types = <<c_ssn>>) =>
        /\ Len(loc.regex_matches) = 1
        /\ loc.regex_matches[1].start = 5 /\ loc.regex_matches[1].end = 16
        /\ loc.regex_matches[1].text = SliceFrom(Scenario.B, 5)
        /\ loc.regex_summary = (c_ssn :> 1)

\* C19: a candidate of the credit_score pattern is accepted by validation
\* exactly when the score it covers (its three digits) lies in [300, 850].
C19_ScoreInRange ==
    (pc = "scanned" /\ request.redact_types = <<c_credit_score>>) =>
        LET text == request.text
            candidates == Range(FindIter(text, PATTERNS[c_credit_score]))
            digit(c) == CHOOSE d \in 0..9 :
                            <<"0","1","2","3","4","5","6","7","8","9">>[d + 1] = c
            covered(r) == 100 * digit(text[r[2] - 2]) + 10 * digit(text[r[2] - 1])
                          + digit(text[r[2]])
            accepted(r) == \E k \in 1..Len(loc.regex_matches) :
                               /\ loc.regex_matches[k].start = r[1]
                               /\ loc.regex_matches[k].end = r[2]
        IN  \A r \in candidates :
                accepted(r) <=> (300 <= covered(r) /\ covered(r) <= 850)

\* C20: in the hybrid pipeline, after a successful detector call, no text the
\* deterministic pass accepted as a span stands at its place (the span's
\* offset) in the final redacted text, whatever the detector returned.
C20_RedactionNotUndone ==
    (pc = "done" /\ result.success /\ flags.use_hybrid /\ loc.llm_success = "yes") =>
        LET spans == find_pii_matches(request.text,
                                      SeqFilter(loc.redact_types, DOMAIN PATTERNS),
                                      request.custom_tags)
        IN  \A k \in 1..Len(spans) :
                ~HasAt(result.response.redacted, spans[k].text, spans[k].start)

\* C21: the candidates gap validation applies to one text (confidence 0.8 or
\* more) are pairwise non-overlapping, so that each is replaced by one
\* complete tag.
C21_AppliedCandidatesDisjoint ==
    loc.gap_validated =>
        LET applied == SelectSeq(loc.potential_missed_pii,
                                 LAMBDA pii : pii.confidence >= MinConfidence)
        IN  \A k \in 1..Len(applied) : \A l \in 1..Len(applied) :
                k # l => \/ applied[k].end <= applied[l].start
                         \/ applied[l].end <= applied[k].start

(***************************************************************************)
(* The specification of the alignment walk alone: the first loop of        *)
(* PIIValidator.enhance_redaction, one iteration a step.  Here loc holds   *)
(* the locals of enhance_redaction.  The pairs walked are arbitrary short  *)
(* strings, and texts paired with what the replacement of one or two of    *)
(* their spans by the tag "[T]" makes of them.                             *)
(***************************************************************************)
\* the longest text walked
MaxWalkLen == 4

\* enhance_redaction(original_text, redacted_text) entered: i, j = 0, 0
InitWalk ==
    LET Strings(chars) == UNION {[1..n -> chars] : n \in 0..MaxWalkLen}
        tag == <<"[","T","]">>
        \* one span, or two with text between them
        SpanLists(n) ==
            {<<s>> : s \in {s \in (0..n) \X (0..n) : s[1] < s[2]}}
            \cup {<<s, t>> : s \in {s \in (0..n) \X (0..n) : s[1] < s[2]},
                             t \in {t \in (0..n) \X (0..n) : t[1] < t[2]}}
        Spans(n) == {sp \in SpanLists(n) : Len(sp) = 2 => sp[1][2] < sp[2][1]}
        \* the text with its spans replaced (last span first), and where the
        \* tags stand in it
        replaced(o, sp) ==
            Substitute(o, [k \in 1..Len(sp) |->
                              [start |-> sp[Len(sp) + 1 - k][1],
                               end |-> sp[Len(sp) + 1 - k][2], replacement |-> tag]])
        tags(sp) ==
            {<<sp[1][1], sp[1][1] + Len(tag)>>}
            \cup (IF Len(sp) = 2
                  THEN {<<sp[2][1] + Len(tag) - (sp[1][2] - sp[1][1]),
                          sp[2][1] + 2 * Len(tag) - (sp[1][2] - sp[1][1])>>}
                  ELSE {})
        walk(o, r, derived, ts) ==
            [original_text |-> o, redacted_text |-> r, i |-> 0, j |-> 0,
             already_redacted |-> <<>>, derived |-> derived, tags |-> ts]
    IN  /\ loc \in {walk(o, r, FALSE, {}) : o \in Strings({"a", " "}),
                                            r \in Strings({"a", "]"})}
                   \cup UNION {{walk(o, replaced(o, sp), TRUE, tags(sp)) :
                                   sp \in Spans(Len(o))} : o \in Strings({"a", "b", " "})}
        /\ pc = "walk"
        /\ svc = "ImprovedPIIService"
        /\ request = [text |-> loc.original_text, redact_types |-> <<>>,
                      custom_tags |-> <<>>]
        /\ flags = [auto_detect_all |-> FALSE, use_hybrid |-> TRUE, use_multi_pass |-> TRUE]
        /\ result = NoResult
        /\ calls = <<>>
        /\ prev = None
        /\ registry = DEFAULT_TAGS
        /\ waiting = None

\* (a variant of the step below: the closing bracket is left out of the
\* range)
WalkStep_open ==
    /\ pc = "walk"
    /\ UNCHANGED <<svc, request, flags, result, calls, prev, registry, waiting>>
    /\ LET o == loc.original_text
           r == loc.redacted_text
       IN  IF ~(loc.i < Len(o) /\ loc.j < Len(r))
           THEN pc' = "walked" /\ loc' = loc
           ELSE /\ pc' = pc
                /\ IF o[loc.i + 1] # r[loc.j + 1]
                   THEN LET redaction_end == TagEnd(r, loc.j)
                        IN  loc' = [loc EXCEPT
                                      !.already_redacted = Append(@, <<loc.j, redaction_end>>),
                                      !.i = Resync(o, r, loc.i, redaction_end),
                                      !.j = redaction_end]
                   ELSE loc' = [loc EXCEPT !.i = @ + 1, !.j = @ + 1]
\* one test of "while i < len(original_text) and j < len(redacted_text)" and,
\* when it holds, one iteration
WalkStep ==
    /\ pc = "walk"
    /\ UNCHANGED <<svc, request, flags, result, calls, prev, registry, waiting>>
    /\ LET o == loc.original_text
           r == loc.redacted_text
       IN  IF ~(loc.i < Len(o) /\ loc.j < Len(r))
           THEN pc' = "walked" /\ loc' = loc
           ELSE /\ pc' = pc
                /\ IF o[loc.i + 1] # r[loc.j + 1]
                   THEN LET j1 == TagEnd(r, loc.j)
                            redaction_end == IF j1 < Len(r) THEN j1 + 1 ELSE j1
                        IN  loc' = [loc EXCEPT
                                      !.already_redacted = Append(@, <<loc.j, redaction_end>>),
                                      !.i = Resync(o, r, loc.i, redaction_end),
                                      !.j = redaction_end]
                   ELSE loc' = [loc EXCEPT !.i = @ + 1, !.j = @ + 1]
SpecWalk == InitWalk /\ [][WalkStep]_vars

\* C22: when the redacted text is the original with non-overlapping,
\* non-abutting spans replaced by a bracketed tag that the rest of the text
\* does not contain, the ranges the walk records are exactly the tags: each
\* runs from a tag's opening bracket to just past its closing bracket.
C22_RangesAreTags ==
    (pc = "walked" /\ loc.derived) => Range(loc.already_redacted) = loc.tags

\* C28: every iteration of the walk advances a cursor and none goes back, the
\* cursors stay within their strings, and every range recorded satisfies
\* 0 <= tagStart < j <= len(redacted); so the walk ends.
C28_WalkTerminates ==
    [][(pc = "walk" /\ pc' = "walk") =>
          /\ loc'.i >= loc.i /\ loc'.j >= loc.j
          /\ loc'.i > loc.i \/ loc'.j > loc.j
          /\ loc'.i <= Len(loc.original_text) /\ loc'.j <= Len(loc.redacted_text)
          /\ \A k \in 1..Len(loc'.already_redacted) :
                 LET range == loc'.already_redacted[k]
                 IN  /\ 0 <= range[1] /\ range[1] < range[2]
                     /\ range[2] <= Len(loc.redacted_text)]_vars
\* a walk over a text without a closing bracket is over: it recorded a range
\* that runs to the end of the text, and both cursors moved
C28_Witness ==
    /\ pc = "walked" /\ ~loc.derived
    /\ loc.already_redacted # <<>>
    /\ loc.already_redacted[Len(loc.already_redacted)][2] = Len(loc.redacted_text)
    /\ loc.i > 0 /\ loc.j > 0

\* C23: for pairwise non-overlapping spans inside the text, substituting them
\* last span first gives the text with each span's range replaced by its tag
\* and everything outside the spans kept in order: the result of replacing
\* all spans at once.  It is what PIIService keeps as the deterministic
\* redaction, and what ImprovedPIIService hands to the clean-up step.
C23_AppliedAtOnce ==
    LET text == request.text
        InText(ms) ==
            /\ \A k \in 1..Len(ms) :
                   0 <= ms[k].start /\ ms[k].start < ms[k].end /\ ms[k].end <= Len(text)
            /\ \A k \in 1..Len(ms) : \A l \in 1..Len(ms) :
                   k # l => ms[k].end <= ms[l].start \/ ms[l].end <= ms[k].start
        AtOnce(ms) ==
            LET n == Len(ms)
                \* the spans from left to right
                nth(k) == CHOOSE m \in Range(ms) :
                              Cardinality({q \in Range(ms) : q.start < m.start}) = k - 1
                out[k \in 0..n] ==
                    IF k = 0 THEN <<>>
                    ELSE out[k - 1]
                         \o Slice(text, IF k = 1 THEN 0 ELSE nth(k - 1).end, nth(k).start)
                         \o nth(k).replacement
            IN  IF n = 0 THEN text ELSE out[n] \o SliceFrom(text, nth(n).end)
        spans == find_pii_matches(text, SeqFilter(loc.redact_types, DOMAIN PATTERNS),
                                  request.custom_tags)
    IN  /\ (/\ svc = "PIIService" /\ flags.use_hybrid /\ loc # NoLocals
            /\ InText(spans)) =>
               loc.regex_redacted = AtOnce(spans)
        /\ (/\ svc = "ImprovedPIIService" /\ pc = "gap_validate"
            /\ InText(loc.all_matches)) =>
               loc.response.redacted = clean_overlapping_redactions(AtOnce(loc.all_matches))
\* two spans that do not touch, the left one first in the list, have been
\* replaced by tags of another length than the spans
C23_Witness ==
    /\ svc = "ImprovedPIIService" /\ pc = "gap_validate"
    /\ Len(loc.all_matches) = 2
    /\ loc.all_matches[1].end <= loc.all_matches[2].start
    /\ loc.response.redacted # request.text

\* C24: when the deterministic pass found spans and the detector is reachable,
\* the text handed to the detector's redact operation is the text in which
\* those spans are already replaced by their tags, never the original text.
C24_DetectorGetsTaggedText ==
    LET pii_types == SeqFilter(loc.redact_types, DOMAIN PATTERNS)
        spans == find_pii_matches(request.text, pii_types, request.custom_tags)
        tagged == RegexRedactor_redact_text(request.text, pii_types,
                                            request.custom_tags).text
    IN  \A k \in 1..Len(calls) :
            (/\ calls[k].op = "redact_pii"
             /\ svc = "ImprovedPIIService" \/ flags.use_hybrid
             /\ spans # <<>>) =>
                calls[k].text = tagged /\ calls[k].text # request.text

\* C25: every tag gap validation inserts stands for a category the request
\* asked for and is that category's replacement tag, the custom one where the
\* request gave one and the registry's otherwise.
C25_GapTagsRequested ==
    loc.gap_validated =>
        LET applied == SelectSeq(loc.potential_missed_pii,
                                 LAMBDA pii : pii.confidence >= MinConfidence)
            tags == Update(registry, request.custom_tags)
        IN  \A k \in 1..Len(applied) :
                /\ applied[k].type \in Range(loc.redact_types)
                /\ TagFor(applied[k].type) = TagOf(tags, applied[k].type)

\* C26: the text the clean-up step returns holds no two bracketed replacement
\* tags (the tags of the requested categories, custom or default, and the
\* generic marker) that are adjacent or separated only by whitespace.
C26_NoTagRunsLeft ==
    (svc = "ImprovedPIIService" /\ pc = "gap_validate") =>
        LET tags == Update(registry, request.custom_tags)
            REDACTED == <<"[","R","E","D","A","C","T","E","D","]">>
            bracketed == {t \in {TagOf(tags, c) : c \in Range(loc.redact_types)}
                                 \cup {REDACTED} :
                             Len(t) >= 2 /\ t[1] = "[" /\ t[Len(t)] = "]"}
        IN  \A t1 \in bracketed : \A t2 \in bracketed :
                FindIter(loc.response.redacted, Cat(<<Lit(t1), Star(S), Lit(t2)>>)) = <<>>

\* C27: the clean-up step returns a text without replacement tags unchanged:
\* when no span was replaced and the submitted text holds no tag, the text
\* after the clean-up is the submitted text, line breaks and other brackets
\* included.
C27_CleanUpKeepsPlainText ==
    LET tags == Update(registry, request.custom_tags)
        tagged(t) ==
            \/ FindIter(t, Lit(<<"[","R","E","D","A","C","T","E","D">>)) # <<>>
            \/ \E c \in DOMAIN tags : FindIter(t, Lit(tags[c])) # <<>>
    IN  (/\ svc = "ImprovedPIIService" /\ pc = "gap_validate"
         /\ loc.all_matches = <<>> /\ ~tagged(request.text)) =>
            loc.response.redacted = request.text

\* C29: a candidate that passes the name test is rejected as an organization
\* exactly when one of its whitespace-separated tokens, in lower case, is an
\* entry of the organization keywords; a keyword inside a longer token does
\* not reject it.
C29_OrgByToken ==
    (pc = "scanned" /\ request.redact_types = <<c_name>>) =>
        LET text == request.text
            candidates == Range(FindIter(text, PATTERNS[c_name]))
            accepted(r) == \E k \in 1..Len(loc.regex_matches) :
                               /\ loc.regex_matches[k].start = r[1]
                               /\ loc.regex_matches[k].end = r[2]
            tokens(t) == {ToLower(Slice(t, q[1], q[2])) : q \in TokenRanges(t)}
        IN  \A r \in candidates :
                _is_likely_name(Slice(text, r[1], r[2])) =>
                    (accepted(r) <=>
                        tokens(Slice(text, r[1], r[2])) \cap org_indicators = {})

\* C30: a name candidate of fewer than 2 or more than 4 tokens is rejected,
\* and one of 2 to 4 tokens that holds no organization keyword and whose
\* tokens all have the generic shape (a capital first, letters, apostrophes
\* and hyphens only, 2 characters or more) is accepted, whatever the
\* reference sets say of its first and last token.
C30_GenericShapeAccepted ==
    (pc = "scanned" /\ request.redact_types = <<c_name>>) =>
        LET text == request.text
            candidates == Range(FindIter(text, PATTERNS[c_name]))
            accepted(r) == \E k \in 1..Len(loc.regex_matches) :
                               /\ loc.regex_matches[k].start = r[1]
                               /\ loc.regex_matches[k].end = r[2]
            parts(t) == {Slice(t, q[1], q[2]) : q \in TokenRanges(t)}
            count(t) == Cardinality(TokenRanges(t))
            generic(part) ==
                /\ Len(part) >= 2
                /\ part[1] \in Upper
                /\ \A k \in 1..Len(part) : part[k] \in Upper \cup Lower \cup {"'", "-"}
            org_free(t) ==
                \A indicator \in org_indicators : Find(ToLower(t), indicator, 0) = -1
        IN  \A r \in candidates :
                LET t == Slice(text, r[1], r[2])
                IN  /\ (count(t) < 2 \/ count(t) > 4) => ~accepted(r)
                    /\ (/\ 2 <= count(t) /\ count(t) <= 4
                        /\ org_free(t)
                        /\ \A part \in parts(t) : generic(part)) => accepted(r)

====
